---- MODULE Spec2Model ----
(***************************************************************************)
(* Model of the autonomous coding agent's task supervisor: the SQLite      *)
(* `tasks` table (logger.py), the persistent priority queue                *)
(* (queue_manager.py) and the worker pipeline (task_executor.py).          *)
(*                                                                         *)
(* Granularity.  All workers run as coroutines of one asyncio event loop;  *)
(* a coroutine gives up control only at a real suspension.  The queue's    *)
(* initialize/put/retry_task never suspend (an uncontended asyncio.Lock,   *)
(* an unbounded PriorityQueue.put and synchronous sqlite3 calls), so each  *)
(* is one action.  A worker suspends in wait_for(queue.get()): the entry   *)
(* is popped by the inner get() and the worker resumes in a later turn of  *)
(* the loop, holding the task.  From there _process_task never suspends:   *)
(* the model call (requests.post), the syntax check, the test run          *)
(* (subprocess.run) and the commit are blocking calls behind their awaits, *)
(* so the loop thread is occupied until the attempt is recorded and, on a  *)
(* failure, re-queued.  The attempt is split at its store writes only so   *)
(* that a process stop, or a put from the HTTP thread, can fall between    *)
(* them; no coroutine of the main loop runs in between.                    *)
(***************************************************************************)
EXTENDS Integers, Sequences, FiniteSets, TLC

\* ---------------------------------------------------------------- bounds
MaxPuts == 2          \* client puts (API, task file, follow-ups) over a run
MaxRestarts == 1      \* process stops followed by a restart
MaxRetriesCfg == 4    \* MAX_RETRIES ranges over 0..MaxRetriesCfg

TaskIds == {"t1", "t2"}
Workers == {"worker_1", "worker_2"}
Priorities == {0, 1}  \* priorities a client gives a task

\* ------------------------------------------------- schema defaults
DbDefaultRetryCount == 0
DbDefaultMaxRetries == 3

NoTask == [task_id |-> "none"]

VARIABLES
    MAX_RETRIES,     \* config.MAX_RETRIES
    tasks,           \* the `tasks` table, rows in rowid order
    heap,            \* PersistentTaskQueue._queue: entries in insertion order
    task_counter,    \* PersistentTaskQueue._task_counter
    initialized,     \* PersistentTaskQueue._initialized
    pc,              \* where each worker coroutine stands
    cur,             \* the Task object each worker holds
    nputs,           \* history: client puts so far
    restarts,        \* history: process restarts so far
    attempts,        \* history: failed attempts of a task since its put
    live,            \* history: tasks put and neither completed nor given up
    thread,          \* the event loop thread each worker coroutine runs on
    run,             \* _process_task's locals: the step results of the attempt
    repo_files,      \* whose generated files lie in the repository worktree
    git_commits,     \* the `git_commits` table: records per task_id
    completed_log,   \* execution_logs: tasks with a TASK_COMPLETED record
    worker_states,   \* TaskExecutor.worker_states: the workers' counters
    now,             \* datetime.now(), in days since uptime_start
    is_paused,       \* TaskExecutor.is_paused
    agent_state,     \* server.app.agent_state
    last_checkpoint, \* AutonomousAgent.last_checkpoint
    reports,         \* the report files written, by their window
    cp,              \* where _run_weekly_checkpoint stands
    api,             \* where the HTTP thread's api_pause handler stands
    cp_paused,       \* history: this checkpoint has called pause_workers
    cp_rendered,     \* history: this checkpoint has written its report
    op_resumed,      \* history: api_pause resumed the workers since the pause
    op_paused,       \* history: api_pause paused the workers since the resume
    resume_signal,   \* history: api_pause cleared agent_state since line 298
    status,          \* worker_states[w]['status']
    shutdown_event,  \* AutonomousAgent.shutdown_event
    sup,             \* where AutonomousAgent.start stands
    uptime_start,    \* AutonomousAgent.uptime_start, a day
    system_state,    \* the Store's system_state row (id = 1)
    state_json,      \* the file state.json
    completed_at,    \* the rows' completed_at column, as a calendar day
    major,           \* the tasks whose description has a major-task keyword
    reviews,         \* history: the review workers that reviewed each task
    CREATE_FOLLOWUP_TASKS, \* config.CREATE_FOLLOWUP_TASKS
    review_findings, \* the sizes of the last review's review_findings lists
    tasks_reviewed,  \* review_stats['tasks_reviewed']
    followups,       \* history: the follow-up tasks the reviewer enqueued
    connected_repos, \* RepositoryManager.connected_repos
    working_directories, \* RepositoryManager.working_directories
    repos_config_file,   \* the content of connected_repos.json
    cloned,          \* the aliases whose directory under base_repos_dir exists
    repo_result,     \* the last call of the manager and what it returned
    repo_calls,      \* history: the calls made to the manager
    released,        \* history: bindings disconnected with their files kept
    generated_text,  \* the text the model returned, as its lines
    code_blocks,     \* what extract_code_blocks returned for it
    extraction,      \* where the extraction of the text stands
    current_task,    \* worker_states[w]['current_task']
    observed,        \* what get_worker_status last returned to the status API
    must_cancel,     \* the worker task's pending cancellation request
    interrupted,     \* history: the task a worker processed when cancel() came
    putting,         \* the task of the put() that runs on the HTTP helper loop
    registered,      \* the keys of the executor's worker_states dictionary
    final_state,     \* the worker_states of the snapshot written last
    at_shutdown,     \* history: the workers' entries when _shutdown began
    primary_count    \* history: the primary reviews made of each task

vars == <<MAX_RETRIES, tasks, heap, task_counter, initialized, pc, cur,
          nputs, restarts, attempts, live, thread, run, repo_files,
          git_commits, completed_log, worker_states, now,
          is_paused, agent_state, last_checkpoint, reports, cp, api,
          cp_paused, cp_rendered, op_resumed, op_paused, resume_signal,
          status, shutdown_event, sup, uptime_start, system_state,
          state_json, completed_at, major, reviews, CREATE_FOLLOWUP_TASKS,
          review_findings, tasks_reviewed, followups, connected_repos,
          working_directories, repos_config_file, cloned, repo_result,
          repo_calls, released, generated_text, code_blocks, extraction,
          current_task, observed, must_cancel, interrupted, putting,
          registered, final_state, at_shutdown, primary_count>>

\* the supervisor's snapshot and what it restores
snapshot == <<uptime_start, system_state, state_json>>

\* what the reviewer reads of the rows, and what it did
reviewing == <<completed_at, major, reviews>>

\* how often the primary reviewer took each task
counting == <<primary_count>>

\* the workers' entries and the snapshot of them over a shutdown
stopping == <<registered, final_state, at_shutdown>>

\* the put() of an HTTP request, inside its `async with self._lock`
locking == <<putting>>

\* the cancellation of a worker task that restart_worker requests
cancelling == <<must_cancel, interrupted>>

\* the workers' entries as the status API reads them
observing == <<current_task, observed>>

\* the generated text and the files extracted from it
extracting == <<generated_text, code_blocks, extraction>>

\* the repository manager's bindings and the directories it made
repos ==
    <<connected_repos, working_directories, repos_config_file, cloned,
      repo_result, repo_calls, released>>

\* the reviewer's configuration, its findings and what it enqueued
followup ==
    <<CREATE_FOLLOWUP_TASKS, review_findings, tasks_reviewed, followups>>

\* the state of the components that the specifications of the supervisor,
\* the pipeline and the checkpoint leave alone
aside ==
    <<snapshot, reviewing, followup, repos, extracting, observing,
      cancelling, locking, stopping, counting>>

\* aside, but for the snapshot
besideSnapshot ==
    <<reviewing, followup, repos, extracting, observing,
      cancelling, locking, stopping, counting>>

\* aside, but for the rows' columns that the reviewer reads
besideReviewing ==
    <<snapshot, followup, repos, extracting, observing,
      cancelling, locking, stopping, counting>>

\* the worker loops' and the supervisor's own state
runtime == <<status, shutdown_event, sup>>

\* the checkpoint's state, which the other specifications leave alone
checkpoint ==
    <<now, is_paused, agent_state, last_checkpoint, reports,
      cp, api, cp_paused, cp_rendered, op_resumed, op_paused,
      resume_signal>>

\* ---------------------------------------------------------------- helpers
Max(a, b) == IF a >= b THEN a ELSE b

Indices(t, tbl) == {i \in DOMAIN tbl : tbl[i].task_id = t}

HasRow(t) == Indices(t, tasks) # {}

Row(t) == tasks[CHOOSE i \in Indices(t, tasks) : TRUE]

\* the status of the task's row, "none" without a row
StatusOf(tbl, t) ==
    IF Indices(t, tbl) = {} THEN "none"
    ELSE tbl[CHOOSE i \in Indices(t, tbl) : TRUE].status

RemoveAt(s, i) == SubSeq(s, 1, i - 1) \o SubSeq(s, i + 1, Len(s))

\* ------------------------------------------------------------- the store
\* INSERT OR REPLACE INTO tasks (task_id, description, priority, status,
\* created_at): the old row of the task_id is deleted and a new row, with a
\* new rowid, takes the schema defaults for every column not listed.
log_task_created(tbl, t, p) ==
    Append(SelectSeq(tbl, LAMBDA r : r.task_id # t),
           [task_id |-> t, priority |-> p, status |-> "pending",
            retry_count |-> DbDefaultRetryCount,
            max_retries |-> DbDefaultMaxRetries])

log_task_started(tbl, t) ==
    [i \in DOMAIN tbl |->
        IF tbl[i].task_id = t THEN [tbl[i] EXCEPT !.status = "running"]
        ELSE tbl[i]]

\* mutant: the store rejects the write, log_task_completed returns False
log_task_completed_Rejected(tbl, t) == tbl

log_task_completed(tbl, t) ==
    [i \in DOMAIN tbl |->
        IF tbl[i].task_id = t THEN [tbl[i] EXCEPT !.status = "completed"]
        ELSE tbl[i]]

log_task_failed(tbl, t, rc) ==
    [i \in DOMAIN tbl |->
        IF tbl[i].task_id = t
        THEN [tbl[i] EXCEPT !.status = "failed", !.retry_count = rc]
        ELSE tbl[i]]

\* ------------------------------------------------------------- the queue
\* Task.from_text / Task.from_json
NewTask(t, p) ==
    [task_id |-> t, priority |-> p, status |-> "pending",
     retry_count |-> 0, max_retries |-> MAX_RETRIES]

Q == [heap |-> heap, counter |-> task_counter, initialized |-> initialized]

\* mutant: the priority enters the heap tuple without its sign flipped
Entry_NoNegation(task, c) == [np |-> task.priority, seq |-> c, task |-> task]

\* self._queue.put((-priority, self._task_counter, task)); counter += 1
Entry(task, c) == [np |-> 0 - task.priority, seq |-> c, task |-> task]

\* mutant: the counter is not advanced after an insertion
Push_NoIncrement(q, task) ==
    [q EXCEPT !.heap = Append(q.heap, Entry(task, q.counter))]

Push(q, task) ==
    [q EXCEPT !.heap = Append(q.heap, Entry(task, q.counter)),
              !.counter = q.counter + 1]

\* mutant: the reload selects the pending rows only
IsOpen_PendingOnly(r) == r.status = "pending"

\* WHERE status IN ('pending', 'running')
IsOpen(r) == r.status \in {"pending", "running"}

\* ORDER BY priority DESC, created_at ASC (created_at follows the rowid)
RECURSIVE OrderRows(_)
OrderRows(rows) ==
    IF rows = <<>> THEN <<>>
    ELSE LET i == CHOOSE k \in DOMAIN rows :
                     \A j \in DOMAIN rows :
                         \/ rows[k].priority > rows[j].priority
                         \/ rows[k].priority = rows[j].priority /\ k <= j
         IN <<rows[i]>> \o OrderRows(RemoveAt(rows, i))

LoadedTask(r) ==
    [task_id |-> r.task_id, priority |-> r.priority, status |-> "pending",
     retry_count |-> r.retry_count, max_retries |-> r.max_retries]

RECURSIVE PushRows(_, _)
PushRows(q, rows) ==
    IF rows = <<>> THEN q
    ELSE PushRows(Push(q, LoadedTask(Head(rows))), Tail(rows))

load_persisted_tasks(q, tbl) == PushRows(q, OrderRows(SelectSeq(tbl, IsOpen)))

\* mutant: initialize() loads again on every call
initialize_Always(q, tbl) ==
    [load_persisted_tasks(q, tbl) EXCEPT !.initialized = TRUE]

initialize(q, tbl) ==
    IF q.initialized THEN q
    ELSE [load_persisted_tasks(q, tbl) EXCEPT !.initialized = TRUE]

\* put: the queue and the table after put(task)
put(q, tbl, task) ==
    LET q1 == initialize(q, tbl)
    IN [q |-> Push(q1, task),
        tbl |-> log_task_created(tbl, task.task_id, task.priority),
        ok |-> TRUE]

\* the tuple order of heap entries: (-priority, counter)
EntryLE(a, b) == a.np < b.np \/ (a.np = b.np /\ a.seq <= b.seq)

MinIndex(h) == CHOOSE i \in DOMAIN h : \A j \in DOMAIN h : EntryLE(h[i], h[j])

\* mutant: the retry forgets to count itself
RetriedTask_NoIncrement(task) ==
    [task EXCEPT !.status = "pending",
                 !.priority = Max(0, task.priority - 1)]

RetriedTask(task) ==
    [task EXCEPT !.retry_count = task.retry_count + 1,
                 !.status = "pending",
                 !.priority = Max(0, task.priority - 1)]

\* mutant: the budget test is off by one
retry_task_OffByOne(q, tbl, task) ==
    IF task.retry_count > task.max_retries
    THEN [q |-> q, tbl |-> tbl, ok |-> FALSE]
    ELSE put(q, tbl, RetriedTask(task))

retry_task(q, tbl, task) ==
    IF task.retry_count >= task.max_retries
    THEN [q |-> q, tbl |-> tbl, ok |-> FALSE]
    ELSE put(q, tbl, RetriedTask(task))

SetQ(q) ==
    /\ heap' = q.heap
    /\ task_counter' = q.counter
    /\ initialized' = q.initialized

\* --------------------------------------------------------------- actions
\* No worker is inside _process_task: the main loop is free to run another
\* coroutine.
MainLoopFree ==
    \A w \in Workers : pc[w] \in {"waiting", "holding", "sleeping"}

\* The workers are coroutines of the main loop; api_restart_worker runs
\* restart_worker on the HTTP helper's loop, where create_task puts the new
\* worker coroutine.  A loop runs one coroutine at a time, and
\* _process_task occupies its loop without suspending.
Loops == {"main", "helper"}

LoopFree(l) ==
    \A w \in Workers :
        thread[w] = l => pc[w] \in {"waiting", "holding", "sleeping"}

\* worker_states[worker_id] as start_workers and restart_worker set it
\* the supervisor's clock, in days
MaxTime == 15
\* the longest list of issues one analysis of a review returns
MaxIssues == 3
\* the reviews of completed tasks followed
MaxReviews == 2
\* the calls made to the repository manager
MaxRepoCalls == 4
\* the lines of a generated text
MaxLines == 4
\* the days the retention timer is followed
MaxClock == 32
CHECKPOINT_DAYS == 7
None == 0 - 1
\* an empty dict of code blocks
NoBlocks == [f \in {} |-> <<>>]

\* the aliases a client names, and the local folders: one exists
Aliases == {"a1", "a2"}
Folders == {"folder", "missing"}
ExistingFolders == {"folder"}
NoBinding == [type |-> "none", local_path |-> "none"]
NoResult == [op |-> "none", alias |-> "none", path |-> "none",
             success |-> FALSE]

NoFindings == [syntax_issues |-> 0, logic_errors |-> 0, others |-> 0]

NoSnapshot == [uptime_start |-> None, last_checkpoint |-> None]

NewWorkerState == [tasks_completed |-> 0, tasks_failed |-> 0]

Init ==
    /\ MAX_RETRIES \in 0..MaxRetriesCfg
    /\ tasks = <<>>
    /\ heap = <<>>
    /\ task_counter = 0
    /\ initialized = FALSE
    /\ pc = [w \in Workers |-> "waiting"]
    /\ cur = [w \in Workers |-> NoTask]
    /\ nputs = 0
    /\ restarts = 0
    /\ attempts = [t \in TaskIds |-> 0]
    /\ live = {}
    /\ thread = [w \in Workers |-> "main"]
    /\ run = [w \in Workers |-> <<>>]
    /\ repo_files = {}
    /\ git_commits = [t \in TaskIds |-> 0]
    /\ completed_log = {}
    /\ worker_states = [w \in Workers |-> NewWorkerState]
    /\ uptime_start = 0
    /\ now = uptime_start
    /\ is_paused = FALSE
    /\ agent_state = [is_paused |-> FALSE]
    /\ last_checkpoint = None
    /\ reports = {}
    /\ cp = "idle"
    /\ api = "idle"
    /\ cp_paused = FALSE
    /\ cp_rendered = FALSE
    /\ op_resumed = FALSE
    /\ op_paused = FALSE
    /\ status = [w \in Workers |-> "idle"]
    /\ shutdown_event = FALSE
    /\ sup = "running"
    /\ system_state = "none"
    /\ state_json = NoSnapshot
    /\ completed_at = [t \in TaskIds |-> None]
    /\ major = {}
    /\ reviews = [t \in TaskIds |-> {}]
    /\ CREATE_FOLLOWUP_TASKS = TRUE
    /\ review_findings = NoFindings
    /\ tasks_reviewed = 0
    /\ followups = <<>>
    /\ connected_repos = [a \in Aliases |-> NoBinding]
    /\ working_directories = {}
    /\ repos_config_file = connected_repos
    /\ cloned = {}
    /\ repo_result = NoResult
    /\ repo_calls = 0
    /\ released = [a \in Aliases |-> NoBinding]
    /\ generated_text = <<>>
    /\ code_blocks = NoBlocks
    /\ extraction = "idle"
    /\ current_task = [w \in Workers |-> "None"]
    /\ must_cancel = [w \in Workers |-> FALSE]
    /\ putting = NoTask
    /\ registered = Workers
    /\ final_state = [written |-> FALSE, workers |-> {}]
    /\ at_shutdown = {}
    /\ primary_count = [t \in TaskIds |-> 0]
    /\ interrupted = [w \in Workers |-> "None"]
    /\ observed = [w \in Workers |-> [status |-> "idle", current_task |-> "None"]]
    /\ resume_signal = FALSE

\* task_queue.initialize() called by the agent or the CLI
Initialize ==
    /\ MainLoopFree
    /\ SetQ(initialize(Q, tasks))
    /\ UNCHANGED <<MAX_RETRIES, tasks, pc, cur, nputs, restarts>>

\* add_text_task / add_json_task: a client (API, task file, reviewer)
\* enqueues a task; a task file or a JSON body may name an existing task_id.
\* Task ids are opaque strings: the first id ever put is called t1.
Put(t, p) ==
    /\ nputs < MaxPuts
    /\ t = "t2" => HasRow("t1")
    /\ \E l \in Loops : LoopFree(l)
    /\ LET r == put(Q, tasks, NewTask(t, p))
       IN /\ SetQ(r.q)
          /\ tasks' = r.tbl
    /\ nputs' = nputs + 1
    /\ UNCHANGED <<MAX_RETRIES, pc, cur, restarts>>

\* _worker_loop: the get() inside wait_for pops the next entry
Dequeue(w) ==
    /\ thread[w] \in Loops
    /\ LoopFree(thread[w])
    /\ pc[w] = "waiting"
    /\ LET q1 == initialize(Q, tasks)
       IN /\ q1.heap # <<>>
          /\ LET i == MinIndex(q1.heap)
             IN /\ SetQ([q1 EXCEPT !.heap = RemoveAt(q1.heap, i)])
                /\ cur' = [cur EXCEPT ![w] = q1.heap[i].task]
    /\ pc' = [pc EXCEPT ![w] = "holding"]
    /\ UNCHANGED <<MAX_RETRIES, tasks, nputs, restarts>>

\* _worker_loop resumes with the task; _process_task logs the start
Start(w) ==
    /\ LoopFree(thread[w])
    /\ pc[w] = "holding"
    /\ tasks' = log_task_started(tasks, cur[w].task_id)
    /\ pc' = [pc EXCEPT ![w] = "working"]
    /\ UNCHANGED <<MAX_RETRIES, heap, task_counter, initialized, cur, nputs,
                   restarts>>

\* _process_task: every step passed; log_task_completed
Complete(w) ==
    /\ pc[w] = "working"
    /\ tasks' = log_task_completed(tasks, cur[w].task_id)
    /\ pc' = [pc EXCEPT ![w] = "waiting"]
    /\ cur' = [cur EXCEPT ![w] = NoTask]
    /\ UNCHANGED <<MAX_RETRIES, heap, task_counter, initialized, nputs,
                   restarts>>

\* _handle_task_failure, first write: log_task_failed
Fail(w) ==
    /\ pc[w] = "working"
    /\ tasks' = log_task_failed(tasks, cur[w].task_id, cur[w].retry_count)
    /\ pc' = [pc EXCEPT ![w] = "failing"]
    /\ UNCHANGED <<MAX_RETRIES, heap, task_counter, initialized, cur, nputs,
                   restarts>>

\* _handle_task_failure: if task.retry_count < task.max_retries
ShouldRetry(task) == task.retry_count < task.max_retries

\* _handle_task_failure, after log_task_failed: retry or give up
HandleFailure(w) ==
    /\ pc[w] = "failing"
    /\ IF ShouldRetry(cur[w])
       THEN LET r == retry_task(Q, tasks, cur[w])
            IN /\ SetQ(r.q)
               /\ tasks' = r.tbl
       ELSE UNCHANGED <<heap, task_counter, initialized, tasks>>
    /\ pc' = [pc EXCEPT ![w] = "waiting"]
    /\ cur' = [cur EXCEPT ![w] = NoTask]
    /\ UNCHANGED <<MAX_RETRIES, nputs, restarts>>

\* a caller of the queue that hands every failed task to retry_task without
\* looking at the budget first
RetryCall(w) ==
    /\ pc[w] = "failing"
    /\ LET r == retry_task(Q, tasks, cur[w])
       IN /\ SetQ(r.q)
          /\ tasks' = r.tbl
    /\ pc' = [pc EXCEPT ![w] = "waiting"]
    /\ cur' = [cur EXCEPT ![w] = NoTask]
    /\ UNCHANGED <<MAX_RETRIES, nputs, restarts>>

\* the process stops (crash, kill, shutdown) and is started again: only the
\* store survives
Restart ==
    /\ restarts < MaxRestarts
    /\ heap' = <<>>
    /\ task_counter' = 0
    /\ initialized' = FALSE
    /\ pc' = [w \in Workers |-> "waiting"]
    /\ cur' = [w \in Workers |-> NoTask]
    /\ restarts' = restarts + 1
    /\ UNCHANGED <<MAX_RETRIES, tasks, nputs>>

\* the pipeline's own state, which the supervisor specifications leave out
pipeline ==
    <<thread, run, repo_files, git_commits, completed_log, worker_states>>

\* what the supervisor specifications leave unrecorded
others == <<attempts, live, pipeline, checkpoint, runtime, aside>>

Next ==
    \/ Initialize /\ UNCHANGED others
    \/ \E t \in TaskIds, p \in Priorities : Put(t, p) /\ UNCHANGED others
    \/ \E w \in Workers : Dequeue(w) /\ UNCHANGED others
    \/ \E w \in Workers : Start(w) /\ UNCHANGED others
    \/ \E w \in Workers : Complete(w) /\ UNCHANGED others
    \/ \E w \in Workers : Fail(w) /\ UNCHANGED others
    \/ \E w \in Workers : HandleFailure(w) /\ UNCHANGED others
    \/ Restart /\ UNCHANGED others

Spec == Init /\ [][Next]_vars

\* the queue driven by a caller that does not pre-check the retry budget
NextQueue ==
    \/ Initialize /\ UNCHANGED others
    \/ \E t \in TaskIds, p \in Priorities : Put(t, p) /\ UNCHANGED others
    \/ \E w \in Workers : Dequeue(w) /\ UNCHANGED others
    \/ \E w \in Workers : Start(w) /\ UNCHANGED others
    \/ \E w \in Workers : Complete(w) /\ UNCHANGED others
    \/ \E w \in Workers : Fail(w) /\ UNCHANGED others
    \/ \E w \in Workers : RetryCall(w) /\ UNCHANGED others
    \/ Restart /\ UNCHANGED others

SpecQueue == Init /\ [][NextQueue]_vars

\* ------------------------------------------------ the supervisor's history
\* a task counts its failed attempts unless its task_id was put again over
\* an existing row; the count stops one past MAX_RETRIES + 1
Unclean == 0 - 1

Failed(a, t) ==
    [a EXCEPT ![t] = IF a[t] = Unclean \/ a[t] > MAX_RETRIES + 1
                     THEN a[t] ELSE a[t] + 1]

HistoryKept == UNCHANGED <<attempts, live, pipeline, checkpoint, runtime, aside>>

HistoryOfPut(t) ==
    /\ attempts' = [attempts EXCEPT ![t] = IF HasRow(t) THEN Unclean ELSE 0]
    /\ live' = live \cup {t}
    /\ UNCHANGED <<pipeline, checkpoint, runtime, aside>>

HistoryOfComplete(w) ==
    /\ live' = live \ {cur[w].task_id}
    /\ UNCHANGED <<attempts, pipeline, checkpoint, runtime, aside>>

HistoryOfFail(w) ==
    /\ attempts' = Failed(attempts, cur[w].task_id)
    /\ live' = IF ShouldRetry(cur[w]) THEN live ELSE live \ {cur[w].task_id}
    /\ UNCHANGED <<pipeline, checkpoint, runtime, aside>>

HistoryOfHandleFailure(w) ==
    /\ live' = IF ShouldRetry(cur[w]) /\ retry_task(Q, tasks, cur[w]).ok
               THEN live ELSE live \ {cur[w].task_id}
    /\ UNCHANGED <<attempts, pipeline, checkpoint, runtime, aside>>

\* the supervisor of Spec with the history of every task recorded
NextHistory ==
    \/ Initialize /\ HistoryKept
    \/ \E t \in TaskIds, p \in Priorities : Put(t, p) /\ HistoryOfPut(t)
    \/ \E w \in Workers : Dequeue(w) /\ HistoryKept
    \/ \E w \in Workers : Start(w) /\ HistoryKept
    \/ \E w \in Workers : Complete(w) /\ HistoryOfComplete(w)
    \/ \E w \in Workers : Fail(w) /\ HistoryOfFail(w)
    \/ \E w \in Workers : HandleFailure(w) /\ HistoryOfHandleFailure(w)
    \/ Restart /\ HistoryKept

SpecHistory == Init /\ [][NextHistory]_vars

\* ------------------------------------------------------------ the pipeline
\* The attempt of _process_task step by step.  run[w] lists the results the
\* attempt has so far: generate_code, quick_syntax_check, run_tests, the
\* writing of the files and commit_changes.
MaxPipelineRetries == 1   \* MAX_RETRIES ranges over 0..MaxPipelineRetries

\* generated_code.strip(): output of white space only strips to nothing
Strip(code) == IF code = " " THEN "" ELSE code

\* what a model handler returns: (generated_code, stats), ("", stats) when
\* the call failed
GenerateResults ==
    {[success |-> TRUE, code |-> "x = 1"], [success |-> TRUE, code |-> " "],
     [success |-> TRUE, code |-> ""], [success |-> FALSE, code |-> ""]}

\* if not model_stats.get('success', False) or not generated_code.strip()
GenerationFailed(g) == ~g.success \/ Strip(g.code) = ""

\* subprocess.run(pytest) ends with a return code or with TimeoutExpired
PytestEnds == {"returncode_0", "returncode_1", "TimeoutExpired"}

\* mutant: the timeout is reported as exit_code 124 of a passed run
run_pytest_TimeoutPasses(e) ==
    IF e = "TimeoutExpired" THEN [success |-> TRUE, exit_code |-> 124]
    ELSE [success |-> e = "returncode_0",
          exit_code |-> IF e = "returncode_0" THEN 0 ELSE 1]

\* _run_pytest: success = (returncode == 0); a timeout gives exit_code 124
run_pytest(e) ==
    IF e = "TimeoutExpired" THEN [success |-> FALSE, exit_code |-> 124]
    ELSE [success |-> e = "returncode_0",
          exit_code |-> IF e = "returncode_0" THEN 0 ELSE 1]

\* write_and_commit_code up to the call of commit_changes: the repository is
\* not available, writing raises, or the files are written
WriteResults == {"unavailable", "write_error", "written"}

\* commit_changes: staging fails, nothing is dirty, the commit is made and
\* recorded, or the commit raises
CommitResults == {"stage_failed", "no_changes", "committed", "commit_error"}

\* (success, commit_hash) as write_and_commit_code returns it
CommitReturn(r) ==
    [success |-> r \in {"no_changes", "committed"},
     commit_hash |-> IF r = "committed" THEN "hash" ELSE "None"]

\* mutant: a failed commit step fails the attempt
Step_CommitFailureFails(r) ==
    IF Len(r) = 0 THEN "generate"
    ELSE IF GenerationFailed(r[1]) THEN "fail"
    ELSE IF Len(r) = 1 THEN "syntax"
    ELSE IF ~r[2] THEN "fail"
    ELSE IF Len(r) = 2 THEN "tests"
    ELSE IF ~r[3].success THEN "fail"
    ELSE IF Len(r) = 3 THEN "write"
    ELSE IF r[4] # "written" THEN "fail"
    ELSE IF Len(r) = 4 THEN "commit"
    ELSE IF ~CommitReturn(r[5]).success THEN "fail"
    ELSE "complete"

\* mutant: the attempt goes on after a failed test run
Step_TestsIgnored(r) ==
    IF Len(r) = 0 THEN "generate"
    ELSE IF GenerationFailed(r[1]) THEN "fail"
    ELSE IF Len(r) = 1 THEN "syntax"
    ELSE IF ~r[2] THEN "fail"
    ELSE IF Len(r) = 2 THEN "tests"
    ELSE IF Len(r) = 3 THEN "write"
    ELSE IF r[4] = "written" /\ Len(r) = 4 THEN "commit"
    ELSE "complete"

\* what _process_task does next, given the results so far
Step(r) ==
    IF Len(r) = 0 THEN "generate"
    ELSE IF GenerationFailed(r[1]) THEN "fail"
    ELSE IF Len(r) = 1 THEN "syntax"
    ELSE IF ~r[2] THEN "fail"
    ELSE IF Len(r) = 2 THEN "tests"
    ELSE IF ~r[3].success THEN "fail"
    ELSE IF Len(r) = 3 THEN "write"
    ELSE IF r[4] = "written" /\ Len(r) = 4 THEN "commit"
    ELSE "complete"

core == <<MAX_RETRIES, tasks, heap, task_counter, initialized, pc, cur,
          nputs, restarts>>

history == <<attempts, live>>

Record(w, result) ==
    /\ run' = [run EXCEPT ![w] = Append(run[w], result)]
    /\ UNCHANGED <<core, history, checkpoint, runtime, aside, thread, completed_log, worker_states>>

InitPipeline == Init /\ MAX_RETRIES <= MaxPipelineRetries

\* a client enqueues a task; the pipeline is followed for task ids put
\* once (Spec has the repeated puts)
PipelinePut(t, p) ==
    /\ ~HasRow(t)
    /\ Put(t, p)
    /\ UNCHANGED <<history, checkpoint, runtime, aside, pipeline>>

PipelineDequeue(w) == Dequeue(w) /\ UNCHANGED <<history, checkpoint, runtime, aside, pipeline>>

\* _process_task begins: log_task_started, no step result yet
PipelineStart(w) ==
    /\ Start(w)
    /\ run' = [run EXCEPT ![w] = <<>>]
    /\ UNCHANGED <<history, checkpoint, runtime, aside, thread, repo_files, git_commits, completed_log,
                   worker_states>>

\* step 1: model_handler.generate_code
Generate(w, g) ==
    /\ pc[w] = "working"
    /\ Step(run[w]) = "generate"
    /\ Record(w, g)
    /\ UNCHANGED <<repo_files, git_commits>>

\* step 2: test_runner.quick_syntax_check
SyntaxCheck(w, valid) ==
    /\ pc[w] = "working"
    /\ Step(run[w]) = "syntax"
    /\ Record(w, valid)
    /\ UNCHANGED <<repo_files, git_commits>>

\* step 2: test_runner.run_tests returns test_result['success']
RunTests(w, e) ==
    /\ pc[w] = "working"
    /\ Step(run[w]) = "tests"
    /\ Record(w, run_pytest(e))
    /\ UNCHANGED <<repo_files, git_commits>>

\* step 3: write_and_commit_code writes the files into the worktree; a
\* write that raises may have written some file before
WriteFiles(w, r) ==
    /\ pc[w] = "working"
    /\ Step(run[w]) = "write"
    /\ Record(w, r)
    /\ \/ r = "written" /\ repo_files' = repo_files \cup {cur[w].task_id}
       \/ r = "write_error" /\ repo_files' = repo_files \cup {cur[w].task_id}
       \/ r # "written" /\ repo_files' = repo_files
    /\ UNCHANGED git_commits

\* step 3: commit_changes; log_git_commit follows the commit
CommitChanges(w, r) ==
    /\ pc[w] = "working"
    /\ Step(run[w]) = "commit"
    /\ Record(w, r)
    /\ git_commits' =
          IF r = "committed"
          THEN [git_commits EXCEPT ![cur[w].task_id] = @ + 1]
          ELSE git_commits
    /\ UNCHANGED repo_files

\* step 4: log_task_completed; the worker loop counts the task
PipelineComplete(w) ==
    /\ Step(run[w]) = "complete"
    /\ Complete(w)
    /\ completed_log' = completed_log \cup {cur[w].task_id}
    /\ worker_states' =
          [worker_states EXCEPT ![w].tasks_completed = @ + 1]
    /\ run' = [run EXCEPT ![w] = <<>>]
    /\ UNCHANGED <<history, checkpoint, runtime, aside, thread, repo_files, git_commits>>

\* a step failed: _handle_task_failure records the failure
PipelineFail(w) ==
    /\ Step(run[w]) = "fail"
    /\ Fail(w)
    /\ UNCHANGED <<history, checkpoint, runtime, aside, pipeline>>

\* _handle_task_failure retries or gives up; the worker loop counts the task
PipelineHandleFailure(w) ==
    /\ HandleFailure(w)
    /\ worker_states' = [worker_states EXCEPT ![w].tasks_failed = @ + 1]
    /\ run' = [run EXCEPT ![w] = <<>>]
    /\ UNCHANGED <<history, checkpoint, runtime, aside, thread, repo_files, git_commits, completed_log>>

\* api_restart_worker for a running worker: restart_worker, on the helper
\* loop, cancels the worker and fails at `await old_worker` (a task of
\* another loop); the main loop, when it runs next, ends the worker at its
\* wait_for.  One worker at a time is taken off the main loop: with all of
\* them on the helper loop the workers share one loop again.
CancelWorker(w) ==
    /\ LoopFree("helper")
    /\ LoopFree("main")
    /\ \A v \in Workers : thread[v] = "main"
    /\ pc[w] = "waiting"
    /\ thread' = [thread EXCEPT ![w] = "done"]
    /\ UNCHANGED <<core, history, checkpoint, runtime, aside, run, repo_files, git_commits,
                   completed_log, worker_states>>

\* api_restart_worker for a worker that is done: create_task starts the new
\* worker coroutine on the helper loop and its counters start again
RelaunchWorker(w) ==
    /\ LoopFree("helper")
    /\ thread[w] = "done"
    /\ thread' = [thread EXCEPT ![w] = "helper"]
    /\ worker_states' = [worker_states EXCEPT ![w] = NewWorkerState]
    /\ UNCHANGED <<core, history, checkpoint, runtime, aside, run, repo_files, git_commits,
                   completed_log>>

\* one run of the process, from its start
NextPipeline ==
    \/ Initialize /\ UNCHANGED <<history, checkpoint, runtime, aside, pipeline>>
    \/ \E t \in TaskIds, p \in Priorities : PipelinePut(t, p)
    \/ \E w \in Workers : PipelineDequeue(w)
    \/ \E w \in Workers : PipelineStart(w)
    \/ \E w \in Workers, g \in GenerateResults : Generate(w, g)
    \/ \E w \in Workers, valid \in BOOLEAN : SyntaxCheck(w, valid)
    \/ \E w \in Workers, e \in PytestEnds : RunTests(w, e)
    \/ \E w \in Workers, r \in WriteResults : WriteFiles(w, r)
    \/ \E w \in Workers, r \in CommitResults : CommitChanges(w, r)
    \/ \E w \in Workers : PipelineComplete(w)
    \/ \E w \in Workers : PipelineFail(w)
    \/ \E w \in Workers : PipelineHandleFailure(w)
    \/ \E w \in Workers : CancelWorker(w)
    \/ \E w \in Workers : RelaunchWorker(w)

SpecPipeline == InitPipeline /\ [][NextPipeline]_vars

\* ------------------------------------------------------------ checkpoint
\* _should_run_checkpoint
ShouldRun(days, lc, t) ==
    IF lc = None THEN t - uptime_start >= days
    ELSE t - lc >= days

ShouldRunCheckpoint(lc, t) == ShouldRun(CHECKPOINT_DAYS, lc, t)

\* the test of the wait loop, agent_state.get('is_paused', True)
StillPaused_Never(st) == FALSE

StillPaused(st) == st.is_paused

\* the branch api_pause takes for an action
ApiActions == {"pause", "resume", "toggle"}

ApiBranch(action, st) ==
    IF action = "pause" \/ (action = "toggle" /\ ~st.is_paused) THEN "pause"
    ELSE IF action = "resume" \/ (action = "toggle" /\ st.is_paused)
    THEN "resume"
    ELSE "none"

\* TaskExecutor.pause_workers and resume_workers, as the new flag
pause_workers(flag) == TRUE

resume_workers_Noop(flag) == flag

resume_workers(flag) == FALSE

queueing == <<core, history, pipeline, runtime, aside>>

Tick ==
    /\ now < MaxTime
    /\ now' = now + 1
    /\ UNCHANGED op_paused
    /\ UNCHANGED <<queueing, is_paused, agent_state, last_checkpoint, reports,
                   cp, api, cp_paused, cp_rendered, op_resumed, resume_signal>>

\* the main loop finds the checkpoint due; pause_workers sets the flag
CheckpointBeginAt(days) ==
    /\ cp = "idle"
    /\ ShouldRun(days, last_checkpoint, now)
    /\ is_paused' = pause_workers(is_paused)
    /\ cp' = "pause_workers"
    /\ cp_paused' = TRUE
    /\ cp_rendered' = FALSE
    /\ op_resumed' = FALSE
    /\ UNCHANGED op_paused
    /\ UNCHANGED <<queueing, now, agent_state, last_checkpoint, reports, api,
                   resume_signal>>

CheckpointBegin == CheckpointBeginAt(CHECKPOINT_DAYS)

SetAgentPaused ==
    /\ cp = "pause_workers"
    /\ agent_state' = [agent_state EXCEPT !.is_paused = TRUE]
    /\ resume_signal' = FALSE
    /\ cp' = "paused"
    /\ UNCHANGED op_paused
    /\ UNCHANGED <<queueing, now, is_paused, last_checkpoint, reports, api,
                   cp_paused, cp_rendered, op_resumed>>

\* generate_summary writes the report of the window or raises
GenerateSummary(written) ==
    /\ cp = "paused"
    /\ IF written
       THEN /\ reports' = reports \cup
                   {<<IF last_checkpoint = None THEN uptime_start
                      ELSE last_checkpoint, now>>}
            /\ cp_rendered' = TRUE
            /\ cp' = "generate_summary"
       ELSE /\ cp' = "except"
            /\ UNCHANGED <<reports, cp_rendered>>
    /\ UNCHANGED op_paused
    /\ UNCHANGED <<queueing, now, is_paused, agent_state, last_checkpoint, api,
                   cp_paused, op_resumed, resume_signal>>

MarkCheckpoint ==
    /\ cp = "generate_summary"
    /\ last_checkpoint' = now
    /\ cp' = "marked"
    /\ UNCHANGED op_paused
    /\ UNCHANGED <<queueing, now, is_paused, agent_state, reports, api,
                   cp_paused, cp_rendered, op_resumed, resume_signal>>

\* the announcement is printed, or the printing raises
Announce(printed) ==
    /\ cp = "marked"
    /\ cp' = IF printed THEN "waiting" ELSE "except"
    /\ UNCHANGED op_paused
    /\ UNCHANGED <<queueing, now, is_paused, agent_state, last_checkpoint,
                   reports, api, cp_paused, cp_rendered, op_resumed,
                   resume_signal>>

\* the wait loop finds the flag cleared
WaitOver ==
    /\ cp = "waiting"
    /\ ~StillPaused(agent_state)
    /\ cp' = "resuming"
    /\ UNCHANGED op_paused
    /\ UNCHANGED <<queueing, now, is_paused, agent_state, last_checkpoint,
                   reports, api, cp_paused, cp_rendered, op_resumed,
                   resume_signal>>

ResumeWorkers ==
    /\ cp = "resuming"
    /\ is_paused' = resume_workers(is_paused)
    /\ cp' = "resumed"
    /\ op_paused' = FALSE
    /\ UNCHANGED <<queueing, now, agent_state, last_checkpoint, reports, api,
                   cp_paused, cp_rendered, op_resumed, resume_signal>>

CheckpointReturn ==
    /\ cp = "resumed"
    /\ cp' = "idle"
    /\ cp_paused' = FALSE
    /\ UNCHANGED op_paused
    /\ UNCHANGED <<queueing, now, is_paused, agent_state, last_checkpoint,
                   reports, api, cp_rendered, op_resumed, resume_signal>>

\* the except clause: resume_workers, then the flag of agent_state
ExceptResume ==
    /\ cp = "except"
    /\ is_paused' = resume_workers(is_paused)
    /\ cp' = "except_resumed"
    /\ op_paused' = FALSE
    /\ UNCHANGED <<queueing, now, agent_state, last_checkpoint, reports, api,
                   cp_paused, cp_rendered, op_resumed, resume_signal>>

ExceptClear ==
    /\ cp = "except_resumed"
    /\ agent_state' = [agent_state EXCEPT !.is_paused = FALSE]
    /\ cp' = "idle"
    /\ cp_paused' = FALSE
    /\ UNCHANGED op_paused
    /\ UNCHANGED <<queueing, now, is_paused, last_checkpoint, reports, api,
                   cp_rendered, op_resumed, resume_signal>>

\* api_pause on the HTTP thread: the call on the executor ...
ApiPause(action) ==
    /\ api = "idle"
    /\ ApiBranch(action, agent_state) # "none"
    /\ api' = ApiBranch(action, agent_state)
    /\ is_paused' = IF ApiBranch(action, agent_state) = "pause"
                    THEN pause_workers(is_paused)
                    ELSE resume_workers(is_paused)
    /\ op_resumed' = (op_resumed \/ ApiBranch(action, agent_state) = "resume")
    /\ op_paused' = (op_paused \/ ApiBranch(action, agent_state) = "pause")
    /\ UNCHANGED <<queueing, now, agent_state, last_checkpoint, reports, cp,
                   cp_paused, cp_rendered, resume_signal>>

\* ... and then the flag of agent_state
ApiSetState ==
    /\ api # "idle"
    /\ agent_state' = [agent_state EXCEPT !.is_paused = (api = "pause")]
    /\ resume_signal' = (resume_signal \/ api = "resume")
    /\ api' = "idle"
    /\ UNCHANGED op_paused
    /\ UNCHANGED <<queueing, now, is_paused, last_checkpoint, reports, cp,
                   cp_paused, cp_rendered, op_resumed>>

InitCheckpoint == Init /\ MAX_RETRIES = 0

NextCheckpoint ==
    \/ Tick
    \/ CheckpointBegin
    \/ SetAgentPaused
    \/ \E written \in BOOLEAN : GenerateSummary(written)
    \/ MarkCheckpoint
    \/ \E printed \in BOOLEAN : Announce(printed)
    \/ WaitOver
    \/ ResumeWorkers
    \/ CheckpointReturn
    \/ ExceptResume
    \/ ExceptClear
    \/ \E action \in ApiActions : ApiPause(action)
    \/ ApiSetState

SpecCheckpoint == InitCheckpoint /\ [][NextCheckpoint]_vars

\* --------------------------------------------------------------- runtime
\* The worker loops with their pause check, the checkpoint and the shutdown
\* of the supervisor, on one main loop; the operator acts from the HTTP
\* thread.
AtLoopTop(w) ==
    /\ pc[w] = "waiting"
    /\ \/ status[w] \in {"idle", "working", "paused"}
       \/ status[w] = "waiting" /\ initialize(Q, tasks).heap = <<>>

\* _worker_loop, the head of an iteration: the paused branch with its sleep,
\* or on to wait_for(task_queue.get()); a wait_for that times out comes here
EnterLoop(w) ==
    /\ sup = "running"
    /\ MainLoopFree
    /\ AtLoopTop(w)
    /\ status' = [status EXCEPT ![w] = IF is_paused THEN "paused"
                                       ELSE "waiting"]
    /\ UNCHANGED <<core, history, pipeline, checkpoint, aside, shutdown_event, sup>>

RuntimePut(t, p) ==
    /\ sup = "running"
    /\ ~HasRow(t)
    /\ Put(t, p)
    /\ UNCHANGED <<others>>

RuntimeDequeue(w) ==
    /\ status[w] = "waiting"
    /\ Dequeue(w)
    /\ UNCHANGED <<others>>

RuntimeStart(w) ==
    /\ Start(w)
    /\ status' = [status EXCEPT ![w] = "working"]
    /\ UNCHANGED <<history, pipeline, checkpoint, aside, shutdown_event, sup>>

RuntimeComplete(w) == Complete(w) /\ UNCHANGED <<others>>

RuntimeFail(w) == Fail(w) /\ UNCHANGED <<others>>

RuntimeHandleFailure(w) == HandleFailure(w) /\ UNCHANGED <<others>>

\* an exception escapes the body of the iteration, between the dequeue and
\* _process_task: the inner handler logs it and sleeps
Raise(w) ==
    /\ MainLoopFree
    /\ pc[w] = "holding"
    /\ pc' = [pc EXCEPT ![w] = "sleeping"]
    /\ cur' = [cur EXCEPT ![w] = NoTask]
    /\ status' = [status EXCEPT ![w] = "working"]
    /\ UNCHANGED <<MAX_RETRIES, tasks, heap, task_counter, initialized, nputs,
                   restarts, history, pipeline, checkpoint, aside, shutdown_event,
                   sup>>

\* the handler's sleep, had the exception ended the loop instead
Recover_Crash(w) ==
    /\ MainLoopFree
    /\ pc[w] = "sleeping"
    /\ pc' = [pc EXCEPT ![w] = "waiting"]
    /\ status' = [status EXCEPT ![w] = "stopped"]
    /\ UNCHANGED <<MAX_RETRIES, tasks, heap, task_counter, initialized, cur,
                   nputs, restarts, history, pipeline, checkpoint, aside,
                   shutdown_event, sup>>

\* the sleep of the handler is over: the next iteration
Recover(w) ==
    /\ MainLoopFree
    /\ pc[w] = "sleeping"
    /\ pc' = [pc EXCEPT ![w] = "waiting"]
    /\ UNCHANGED <<MAX_RETRIES, tasks, heap, task_counter, initialized, cur,
                   nputs, restarts, others>>

\* _signal_handler: the loop sets the supervisor's event
Signal ==
    /\ sup = "running"
    /\ ~shutdown_event
    /\ MainLoopFree
    /\ shutdown_event' = TRUE
    /\ UNCHANGED <<core, history, pipeline, checkpoint, aside, status, sup>>

\* _main_loop, idle between two checkpoints, finds the event set
MainLoopExit ==
    /\ sup = "running"
    /\ cp = "idle"
    /\ shutdown_event
    /\ MainLoopFree
    /\ sup' = "shutdown"
    /\ UNCHANGED <<core, history, pipeline, checkpoint, aside, status, shutdown_event>>

\* _shutdown: stop_workers cancels every worker and joins them
StopWorkers ==
    /\ sup = "shutdown"
    /\ MainLoopFree
    /\ status' = [w \in Workers |-> "stopped"]
    /\ pc' = [w \in Workers |-> "waiting"]
    /\ cur' = [w \in Workers |-> NoTask]
    /\ sup' = "workers_stopped"
    /\ UNCHANGED <<MAX_RETRIES, tasks, heap, task_counter, initialized, nputs,
                   restarts, history, pipeline, checkpoint, aside, shutdown_event>>

\* _shutdown: the final _save_system_state
SaveFinalState ==
    /\ sup = "workers_stopped"
    /\ sup' = "saved"
    /\ UNCHANGED <<core, history, pipeline, checkpoint, aside, status, shutdown_event>>

\* the main loop starts a checkpoint only when it has not seen the event
RuntimeCheckpointBegin ==
    /\ sup = "running"
    /\ ~shutdown_event
    /\ MainLoopFree
    /\ CheckpointBegin

\* days matter only to the main loop between two checkpoints
RuntimeTick == cp = "idle" /\ ~ShouldRunCheckpoint(last_checkpoint, now) /\ Tick

OnMainLoop(A) == sup = "running" /\ MainLoopFree /\ A

CheckpointStep ==
    \/ OnMainLoop(SetAgentPaused)
    \/ \E written \in BOOLEAN : OnMainLoop(GenerateSummary(written))
    \/ OnMainLoop(MarkCheckpoint)
    \/ \E printed \in BOOLEAN : OnMainLoop(Announce(printed))
    \/ OnMainLoop(WaitOver)
    \/ OnMainLoop(ResumeWorkers)
    \/ OnMainLoop(CheckpointReturn)
    \/ OnMainLoop(ExceptResume)
    \/ OnMainLoop(ExceptClear)

WorkerStep(w) ==
    \/ EnterLoop(w)
    \/ RuntimeDequeue(w)
    \/ RuntimeStart(w)
    \/ RuntimeComplete(w)
    \/ RuntimeFail(w)
    \/ RuntimeHandleFailure(w)
    \/ Recover(w)

InitRuntime == Init /\ MAX_RETRIES = 0

NextRuntime ==
    \/ RuntimeTick
    \/ \E t \in TaskIds : RuntimePut(t, 0)
    \/ \E w \in Workers : EnterLoop(w)
    \/ \E w \in Workers : RuntimeDequeue(w)
    \/ \E w \in Workers : RuntimeStart(w)
    \/ \E w \in Workers : RuntimeComplete(w)
    \/ \E w \in Workers : RuntimeFail(w)
    \/ \E w \in Workers : RuntimeHandleFailure(w)
    \/ \E w \in Workers : Raise(w)
    \/ \E w \in Workers : Recover(w)
    \/ RuntimeCheckpointBegin
    \/ CheckpointStep
    \/ ApiPause("resume")
    \/ ApiSetState
    \/ Signal
    \/ MainLoopExit
    \/ StopWorkers
    \/ SaveFinalState

\* the loop runs every coroutine that can run; the operator, the clients and
\* the signal owe nothing
FairRuntime ==
    /\ \A w \in Workers : WF_vars(WorkerStep(w))
    /\ WF_vars(RuntimeCheckpointBegin \/ CheckpointStep)
    /\ WF_vars(MainLoopExit \/ StopWorkers \/ SaveFinalState)

SpecRuntime == InitRuntime /\ [][NextRuntime]_vars /\ FairRuntime

\* the runtime configured with CHECKPOINT_DAYS = 0: a checkpoint is due at
\* every tick of the main loop; the operator only ever resumes
DrainCheckpointBegin ==
    /\ sup = "running"
    /\ MainLoopFree
    /\ CheckpointBeginAt(0)

NextDrain ==
    \/ \E t \in TaskIds : RuntimePut(t, 0)
    \/ \E w \in Workers : EnterLoop(w)
    \/ \E w \in Workers : RuntimeDequeue(w)
    \/ \E w \in Workers : RuntimeStart(w)
    \/ \E w \in Workers : RuntimeComplete(w)
    \/ \E w \in Workers : RuntimeFail(w)
    \/ \E w \in Workers : RuntimeHandleFailure(w)
    \/ DrainCheckpointBegin
    \/ CheckpointStep
    \/ ApiPause("resume")
    \/ ApiSetState

FairDrain ==
    /\ \A w \in Workers : SF_vars(WorkerStep(w))
    /\ WF_vars(DrainCheckpointBegin \/ CheckpointStep)
    /\ WF_vars(ApiSetState)

SpecDrain == InitRuntime /\ [][NextDrain]_vars /\ FairDrain

\* -------------------------------------------------------------- snapshot
\* DatabaseLogger.save_system_state: the row holds the workers' and the
\* queue's state, or the write fails and leaves the row as it was
save_system_state(row, written) == IF written THEN "row" ELSE row

\* DatabaseLogger.load_system_state: the row's content, or None
load_system_state(row) == row

\* the state_data of _save_system_state that a later start can restore
StateData == [uptime_start |-> uptime_start, last_checkpoint |-> last_checkpoint]

\* _load_system_state: what the started supervisor ends up with, given the
\* values its constructor set
LoadedState(row, file, constructed) ==
    IF load_system_state(row) # "none" THEN constructed
    ELSE IF file # NoSnapshot
    THEN [uptime_start |-> file.uptime_start,
          last_checkpoint |-> file.last_checkpoint]
    ELSE constructed

\* _save_system_state, from the state save loop
SaveSystemState(written) ==
    /\ cp \in {"idle", "waiting"}
    /\ system_state' = save_system_state(system_state, written)
    /\ state_json' = StateData
    /\ UNCHANGED <<core, history, pipeline, runtime, checkpoint, uptime_start,
                   besideSnapshot>>

\* the process ends and is started again: the constructor, then
\* _load_system_state
StartAgain ==
    /\ restarts < MaxRestarts
    /\ restarts' = restarts + 1
    /\ LET loaded == LoadedState(system_state, state_json,
                                 [uptime_start |-> now,
                                  last_checkpoint |-> None])
       IN /\ uptime_start' = loaded.uptime_start
          /\ last_checkpoint' = loaded.last_checkpoint
    /\ is_paused' = FALSE
    /\ agent_state' = [is_paused |-> FALSE]
    /\ cp' = "idle"
    /\ api' = "idle"
    /\ cp_paused' = FALSE
    /\ cp_rendered' = FALSE
    /\ op_resumed' = FALSE
    /\ op_paused' = FALSE
    /\ resume_signal' = FALSE
    /\ UNCHANGED <<MAX_RETRIES, tasks, heap, task_counter, initialized, pc,
                   cur, nputs, history, pipeline, runtime, now, reports,
                   system_state, state_json, besideSnapshot>>

NextSnapshot ==
    \/ Tick
    \/ CheckpointBegin
    \/ SetAgentPaused
    \/ GenerateSummary(TRUE)
    \/ MarkCheckpoint
    \/ Announce(TRUE)
    \/ WaitOver
    \/ ResumeWorkers
    \/ CheckpointReturn
    \/ ApiPause("resume")
    \/ ApiSetState
    \/ \E written \in BOOLEAN : SaveSystemState(written)
    \/ StartAgain

SpecSnapshot == InitCheckpoint /\ [][NextSnapshot]_vars

\* -------------------------------------------------------------- reviewer
\* TirelessReviewer.major_task_grace_period, in days
MajorGraceDays == 7
\* the windows of the two review loops, in days (hours = 24; 24 to 168)
RecentDays == 1
DeepStartDays == 1
DeepEndDays == 7

\* _get_recently_completed_tasks: completed_at > cutoff, a comparison of the
\* row's 'YYYY-MM-DD HH:MM:SS' with the cutoff's 'YYYY-MM-DDTHH:MM:SS.ffffff';
\* on the same date the row's text is the smaller one (' ' < 'T'), so the row
\* is selected when its date is later than the cutoff's date
RecentlyCompleted(tbl, done, n) ==
    {t \in TaskIds : /\ StatusOf(tbl, t) = "completed"
                     /\ done[t] > n - RecentDays}

\* _get_completed_tasks_range: completed_at BETWEEN start AND end, the same
\* comparison of texts: later than the start's date, up to the end's date
CompletedRange(tbl, done, n) ==
    {t \in TaskIds : /\ StatusOf(tbl, t) = "completed"
                     /\ done[t] > n - DeepEndDays
                     /\ done[t] <= n - DeepStartDays}

\* _should_respect_major_task
ShouldRespectMajorTask(t, done, n) ==
    /\ t \in major
    /\ n - done[t] < MajorGraceDays

\* add_task with a description that has, or has not, a keyword; the replaced
\* row's completed_at is NULL again
ReviewPut(t, p, m) ==
    /\ Put(t, p)
    /\ major' = IF m THEN major \cup {t} ELSE major \ {t}
    /\ completed_at' = [completed_at EXCEPT ![t] = None]
    /\ UNCHANGED <<history, pipeline, checkpoint, runtime, besideReviewing,
                   reviews>>

\* log_task_completed: completed_at = CURRENT_TIMESTAMP
ReviewComplete(w) ==
    /\ Complete(w)
    /\ completed_at' = [completed_at EXCEPT ![cur[w].task_id] = now]
    /\ UNCHANGED <<history, pipeline, checkpoint, runtime, besideReviewing,
                   major, reviews>>

\* one cycle of _primary_review_loop
PrimaryCycle ==
    /\ reviews' =
         [t \in TaskIds |->
            IF /\ t \in RecentlyCompleted(tasks, completed_at, now)
               /\ ~ShouldRespectMajorTask(t, completed_at, now)
            THEN reviews[t] \cup {"primary"}
            ELSE reviews[t]]
    /\ UNCHANGED <<core, history, pipeline, checkpoint, runtime,
                   besideReviewing, completed_at, major>>

\* one cycle of _deep_review_loop
DeepCycle ==
    /\ reviews' =
         [t \in TaskIds |->
            IF t \in CompletedRange(tasks, completed_at, now)
            THEN reviews[t] \cup {"deep"}
            ELSE reviews[t]]
    /\ UNCHANGED <<core, history, pipeline, checkpoint, runtime,
                   besideReviewing, completed_at, major>>

NextReview ==
    \/ Initialize /\ UNCHANGED others
    \/ \E t \in TaskIds, m \in BOOLEAN : ReviewPut(t, 0, m)
    \/ \E w \in Workers : Dequeue(w) /\ UNCHANGED others
    \/ \E w \in Workers : Start(w) /\ UNCHANGED others
    \/ \E w \in Workers : ReviewComplete(w)
    \/ Tick
    \/ PrimaryCycle
    \/ DeepCycle

SpecReview == InitCheckpoint /\ [][NextReview]_vars

\* ------------------------------------------------------------- follow-up
\* the critical issues that make _create_followup_tasks enqueue a task
FollowupThreshold == 3
\* the priority of the follow-up task
FollowupPriority == 2

\* the sizes of the lists a review may find
IssueCounts == 0..MaxIssues

total_issues(f) == f.syntax_issues + f.logic_errors + f.others

\* len(critical_issues) of _create_followup_tasks
critical_issues(f) == f.syntax_issues + f.logic_errors

\* whether _review_completed_task ends up enqueueing a follow-up task; the
\* configured flag is not among what the code reads
CreatesFollowup(f, enabled) ==
    /\ total_issues(f) > 0
    /\ critical_issues(f) >= FollowupThreshold

\* aside, but for the follow-up state
besideFollowup ==
    <<snapshot, reviewing, repos, extracting, observing,
      cancelling, locking, stopping, counting>>

\* config.py is imported: CREATE_FOLLOWUP_TASKS is read from the environment
ImportConfig(flag) ==
    /\ ~initialized
    /\ nputs = 0
    /\ tasks_reviewed = 0
    /\ CREATE_FOLLOWUP_TASKS' = flag
    /\ UNCHANGED <<core, history, pipeline, checkpoint, runtime,
                   besideFollowup, review_findings, tasks_reviewed,
                   followups>>

\* _review_completed_task on a completed task whose result parses: the
\* analyses fill review_findings, then _store_review_results and
\* _create_followup_tasks, which calls add_text_task
ReviewCompletedTask(t, syn, log, oth) ==
    /\ StatusOf(tasks, t) = "completed"
    /\ tasks_reviewed < MaxReviews
    /\ LET f == [syntax_issues |-> syn, logic_errors |-> log, others |-> oth]
       IN /\ review_findings' = f
          /\ IF CreatesFollowup(f, CREATE_FOLLOWUP_TASKS)
             THEN \E n \in TaskIds :
                    /\ ~HasRow(n)
                    /\ Put(n, FollowupPriority)
                    /\ followups' =
                         Append(followups,
                                [task_id |-> n, of |-> t,
                                 priority |-> Row(n)'.priority])
             ELSE UNCHANGED <<core, followups>>
    /\ tasks_reviewed' = tasks_reviewed + 1
    /\ UNCHANGED <<history, pipeline, checkpoint, runtime, besideFollowup,
                   CREATE_FOLLOWUP_TASKS>>

NextFollowup ==
    \/ Initialize /\ UNCHANGED others
    \/ \E flag \in BOOLEAN : ImportConfig(flag)
    \/ \E t \in TaskIds, m \in BOOLEAN : ReviewPut(t, 0, m)
    \/ \E w \in Workers : Dequeue(w) /\ UNCHANGED others
    \/ \E w \in Workers : Start(w) /\ UNCHANGED others
    \/ \E w \in Workers : ReviewComplete(w)
    \/ \E t \in TaskIds, syn \in IssueCounts, log \in IssueCounts,
         oth \in 0..1 : ReviewCompletedTask(t, syn, log, oth)

SpecFollowup == InitCheckpoint /\ [][NextFollowup]_vars

\* ----------------------------------------------------------- repositories
\* os.path.join(base_repos_dir, alias)
ClonePath(a) == a

\* git.Repo.clone_from(url, local_path): git refuses a destination that
\* exists and is not empty
CloneSucceeds(dirs, a) == a \notin dirs

\* aside, but for the repository manager
besideRepos ==
    <<snapshot, reviewing, followup, extracting, observing,
      cancelling, locking, stopping, counting>>

\* what every call of the manager leaves alone
RepoFrame ==
    UNCHANGED <<core, history, pipeline, checkpoint, runtime, besideRepos>>

\* connect_to_github_repo(repo_url, alias)
ConnectToGithubRepo(a) ==
    /\ repo_calls < MaxRepoCalls
    /\ repo_calls' = repo_calls + 1
    /\ IF connected_repos[a] # NoBinding
       THEN /\ repo_result' = [op |-> "connect_to_github_repo", alias |-> a,
                               path |-> ClonePath(a), success |-> FALSE]
            /\ UNCHANGED <<connected_repos, working_directories,
                           repos_config_file, cloned, released>>
       ELSE IF ~CloneSucceeds(cloned, a)
       THEN /\ repo_result' = [op |-> "connect_to_github_repo", alias |-> a,
                               path |-> ClonePath(a), success |-> FALSE]
            /\ UNCHANGED <<connected_repos, working_directories,
                           repos_config_file, cloned, released>>
       ELSE /\ cloned' = cloned \cup {a}
            /\ connected_repos' =
                 [connected_repos EXCEPT
                    ![a] = [type |-> "github", local_path |-> ClonePath(a)]]
            /\ working_directories' = working_directories \cup {a}
            /\ repos_config_file' = connected_repos'
            /\ repo_result' = [op |-> "connect_to_github_repo", alias |-> a,
                               path |-> ClonePath(a), success |-> TRUE]
            /\ released' = [released EXCEPT ![a] = NoBinding]
    /\ RepoFrame

\* connect_to_local_folder(folder_path, alias)
ConnectToLocalFolder(f, a) ==
    /\ repo_calls < MaxRepoCalls
    /\ repo_calls' = repo_calls + 1
    /\ IF f \notin ExistingFolders \/ connected_repos[a] # NoBinding
       THEN /\ repo_result' = [op |-> "connect_to_local_folder", alias |-> a,
                               path |-> f, success |-> FALSE]
            /\ UNCHANGED <<connected_repos, working_directories,
                           repos_config_file, released>>
       ELSE /\ connected_repos' =
                 [connected_repos EXCEPT
                    ![a] = [type |-> "local_folder", local_path |-> f]]
            /\ working_directories' = working_directories \cup {a}
            /\ repos_config_file' = connected_repos'
            /\ repo_result' = [op |-> "connect_to_local_folder", alias |-> a,
                               path |-> f, success |-> TRUE]
            /\ released' = [released EXCEPT ![a] = NoBinding]
    /\ UNCHANGED cloned
    /\ RepoFrame

\* disconnect_repo(alias, remove_local)
DisconnectRepo(a, remove_local) ==
    /\ repo_calls < MaxRepoCalls
    /\ repo_calls' = repo_calls + 1
    /\ IF connected_repos[a] = NoBinding
       THEN /\ repo_result' = [op |-> "disconnect_repo", alias |-> a,
                               path |-> "none", success |-> FALSE]
            /\ UNCHANGED <<connected_repos, working_directories,
                           repos_config_file, cloned, released>>
       ELSE /\ connected_repos' = [connected_repos EXCEPT ![a] = NoBinding]
            /\ working_directories' = working_directories \ {a}
            /\ cloned' = IF remove_local /\ connected_repos[a].type = "github"
                         THEN cloned \ {a}
                         ELSE cloned
            /\ repos_config_file' = connected_repos'
            /\ repo_result' = [op |-> "disconnect_repo", alias |-> a,
                               path |-> connected_repos[a].local_path,
                               success |-> TRUE]
            /\ released' =
                 [released EXCEPT
                    ![a] = IF remove_local THEN NoBinding
                           ELSE connected_repos[a]]
    /\ RepoFrame

\* a new process: RepositoryManager() and _load_repo_connections
LoadRepoConnections ==
    /\ repo_calls < MaxRepoCalls
    /\ repo_calls' = repo_calls + 1
    /\ connected_repos' = repos_config_file
    /\ working_directories' = {}
    /\ repo_result' = NoResult
    /\ UNCHANGED <<repos_config_file, cloned, released>>
    /\ RepoFrame

NextRepos ==
    \/ \E a \in Aliases : ConnectToGithubRepo(a)
    \/ \E f \in Folders, a \in Aliases : ConnectToLocalFolder(f, a)
    \/ \E a \in Aliases, remove_local \in BOOLEAN :
         DisconnectRepo(a, remove_local)
    \/ LoadRepoConnections

SpecRepos == InitCheckpoint /\ [][NextRepos]_vars

\* ------------------------------------------------------------ extraction
\* the lines a generated text is made of: file indicators, code block
\* markers, code, comments
Filenames == {"a.py", "b.py"}
FileLines == {[kind |-> "file", text |-> f] : f \in Filenames}
\* a marker is three backquotes, alone or followed by the language
MarkerLines == {[kind |-> "marker", text |-> "fence"],
                [kind |-> "marker", text |-> "fence python"]}
CodeLines == {[kind |-> "code", text |-> "x"],
              [kind |-> "code", text |-> "y"]}
CommentLines == {[kind |-> "comment", text |-> "# c"]}
BlankLine == [kind |-> "blank", text |-> ""]
Lines == FileLines \cup MarkerLines \cup CodeLines \cup CommentLines

Texts == UNION {[1..n -> Lines] : n \in 1..MaxLines}

\* code_blocks[k] = v
SetItem(d, k, v) ==
    [x \in DOMAIN d \cup {k} |-> IF x = k THEN v ELSE d[x]]

NoFile == "None"

ScanStart ==
    [code_blocks |-> NoBlocks, current_file |-> NoFile,
     current_code |-> <<>>, in_code_block |-> FALSE, saved |-> <<>>]

\* "Save previous code block": the entry of the filename is assigned; saved
\* keeps every block in the order of the assignments
SaveBlock(st) ==
    IF st.current_file # NoFile /\ st.current_code # <<>>
    THEN [st EXCEPT
            !.code_blocks = SetItem(@, st.current_file, st.current_code),
            !.saved = Append(@, [file |-> st.current_file,
                                 code |-> st.current_code])]
    ELSE st

\* the body of the loop over the lines
ScanLine(st, line) ==
    IF line.kind = "file"
    THEN [SaveBlock(st) EXCEPT !.current_file = line.text,
                               !.current_code = <<>>]
    ELSE IF line.kind = "marker"
    THEN IF line.text = "fence"
         THEN [st EXCEPT !.in_code_block = ~st.in_code_block]
         ELSE [st EXCEPT !.in_code_block = TRUE]
    ELSE IF \/ st.in_code_block
            \/ (st.current_file # NoFile /\ line.kind # "comment")
    THEN [st EXCEPT !.current_code = Append(@, line)]
    ELSE st

RECURSIVE Scan(_, _)
Scan(lines, st) ==
    IF lines = <<>> THEN st
    ELSE Scan(Tail(lines), ScanLine(st, Head(lines)))

\* the lines between the odd and the even occurrences of a marker, each part
\* followed by the empty line that precedes its closing marker
RECURSIVE FencedParts(_, _)
FencedParts(lines, inside) ==
    IF lines = <<>> THEN <<>>
    ELSE IF Head(lines).kind = "marker"
    THEN (IF inside THEN <<BlankLine>> ELSE <<>>)
         \o FencedParts(Tail(lines), ~inside)
    ELSE (IF inside THEN <<Head(lines)>> ELSE <<>>)
         \o FencedParts(Tail(lines), inside)

\* str.strip() of a text, on its lines
RECURSIVE StripLeft(_)
StripLeft(lines) ==
    IF lines # <<>> /\ Head(lines) = BlankLine THEN StripLeft(Tail(lines))
    ELSE lines

RECURSIVE StripRight(_)
StripRight(lines) ==
    IF lines # <<>> /\ lines[Len(lines)] = BlankLine
    THEN StripRight(SubSeq(lines, 1, Len(lines) - 1))
    ELSE lines

strip(lines) == StripRight(StripLeft(lines))

\* "If no specific files found, treat entire text as main.py"
MainPy(lines) ==
    IF \E i \in DOMAIN lines : lines[i].kind = "marker"
    THEN strip(FencedParts(lines, FALSE))
    ELSE lines

extract_code_blocks(lines) ==
    LET st == SaveBlock(Scan(lines, ScanStart))
    IN IF st.code_blocks = NoBlocks /\ lines # <<>>
       THEN SetItem(NoBlocks, "main.py", MainPy(lines))
       ELSE st.code_blocks

\* the blocks of the text, in their order, as the scan delimits them
BlocksOf(lines) == SaveBlock(Scan(lines, ScanStart)).saved

\* aside, but for the extraction
besideExtracting ==
    <<snapshot, reviewing, followup, repos, observing,
      cancelling, locking, stopping, counting>>

ExtractFrame ==
    UNCHANGED <<core, history, pipeline, checkpoint, runtime,
                besideExtracting>>

\* the model returns a text
GenerateText(text) ==
    /\ extraction = "idle"
    /\ generated_text' = text
    /\ extraction' = "generated"
    /\ UNCHANGED code_blocks
    /\ ExtractFrame

\* extract_code_blocks(generated_text)
Extract ==
    /\ extraction = "generated"
    /\ code_blocks' = extract_code_blocks(generated_text)
    /\ extraction' = "extracted"
    /\ UNCHANGED generated_text
    /\ ExtractFrame

NextExtract ==
    \/ \E text \in Texts : GenerateText(text)
    \/ Extract

SpecExtract == InitCheckpoint /\ [][NextExtract]_vars

\* ------------------------------------------------------------- retention
\* clear_completed_tasks(days_old = 30)
RetentionDays == 30

\* DELETE FROM tasks WHERE status = 'completed' AND completed_at <
\* datetime('now', '-30 days'): the rows that stay
clear_completed_tasks(tbl, done, n) ==
    SelectSeq(tbl, LAMBDA r : ~(/\ r.status = "completed"
                                /\ done[r.task_id] < n - RetentionDays))

\* _log_cleanup_loop: hours of sleep add up to some days, then
\* clear_completed_tasks runs
LogCleanupLoop(days) ==
    /\ now + days <= MaxClock
    /\ now' = now + days
    /\ tasks' = clear_completed_tasks(tasks, completed_at, now')
    /\ completed_at' =
         [t \in TaskIds |->
            IF Indices(t, tasks') = {} THEN None ELSE completed_at[t]]
    /\ UNCHANGED <<MAX_RETRIES, heap, task_counter, initialized, pc, cur,
                   nputs, restarts, history, pipeline, runtime,
                   besideReviewing, major, reviews, is_paused, agent_state,
                   last_checkpoint, reports, cp, api, cp_paused, cp_rendered,
                   op_resumed, op_paused, resume_signal>>

NextRetention ==
    \/ Initialize /\ UNCHANGED others
    \/ \E t \in TaskIds : ReviewPut(t, 0, FALSE)
    \/ \E w \in Workers : Dequeue(w) /\ UNCHANGED others
    \/ \E w \in Workers : Start(w) /\ UNCHANGED others
    \/ \E w \in Workers : ReviewComplete(w)
    \/ \E w \in Workers : Fail(w) /\ UNCHANGED others
    \/ \E w \in Workers : HandleFailure(w) /\ UNCHANGED others
    \/ \E days \in {1, RetentionDays} : LogCleanupLoop(days)

SpecRetention == InitCheckpoint /\ [][NextRetention]_vars

\* ---------------------------------------------------------------- status
\* The workers write their worker_states entry on the main loop's thread;
\* the status API reads it on the HTTP thread, between any two statements.
besideObserving ==
    <<snapshot, reviewing, followup, repos, extracting,
      cancelling, locking, stopping, counting>>

\* the head of an iteration, after the entry's current_task was cleared
StatusEnterLoop(w) ==
    /\ current_task[w] = "None"
    /\ EnterLoop(w)

\* worker_states[worker_id]['status'] = 'working'
SetStatusWorking(w) ==
    /\ pc[w] = "holding"
    /\ status[w] = "waiting"
    /\ status' = [status EXCEPT ![w] = "working"]
    /\ UNCHANGED <<core, history, pipeline, checkpoint, aside, shutdown_event,
                   sup>>

\* worker_states[worker_id]['current_task'] = task.task_id
SetCurrentTask(w) ==
    /\ pc[w] = "holding"
    /\ status[w] = "working"
    /\ current_task[w] = "None"
    /\ current_task' = [current_task EXCEPT ![w] = cur[w].task_id]
    /\ UNCHANGED <<core, history, pipeline, checkpoint, runtime,
                   besideObserving, observed>>

\* _process_task is entered with the entry written
StatusStart(w) ==
    /\ current_task[w] # "None"
    /\ Start(w)
    /\ UNCHANGED others

\* worker_states[worker_id]['current_task'] = None, after _process_task
ClearCurrentTask(w) ==
    /\ pc[w] = "waiting"
    /\ current_task[w] # "None"
    /\ current_task' = [current_task EXCEPT ![w] = "None"]
    /\ UNCHANGED <<core, history, pipeline, checkpoint, runtime,
                   besideObserving, observed>>

\* get_worker_status, called by api_status on the HTTP thread
GetWorkerStatus ==
    /\ observed' = [w \in Workers |->
                      [status |-> status[w], current_task |-> current_task[w]]]
    /\ UNCHANGED <<core, history, pipeline, checkpoint, runtime,
                   besideObserving, current_task>>

NextStatus ==
    \/ \E t \in TaskIds : RuntimePut(t, 0)
    \/ \E w \in Workers : StatusEnterLoop(w)
    \/ \E w \in Workers : RuntimeDequeue(w)
    \/ \E w \in Workers : SetStatusWorking(w)
    \/ \E w \in Workers : SetCurrentTask(w)
    \/ \E w \in Workers : StatusStart(w)
    \/ \E w \in Workers : RuntimeComplete(w)
    \/ \E w \in Workers : RuntimeFail(w)
    \/ \E w \in Workers : RuntimeHandleFailure(w)
    \/ \E w \in Workers : ClearCurrentTask(w)
    \/ \E action \in {"pause", "resume"} : ApiPause(action)
    \/ ApiSetState
    \/ GetWorkerStatus

SpecStatus == InitRuntime /\ [][NextStatus]_vars

\* -------------------------------------------------------- worker restart
\* api_restart_worker runs restart_worker on the HTTP helper's loop while
\* the worker runs on the main loop.
besideCancelling ==
    <<snapshot, reviewing, followup, repos, extracting,
      observing, locking, stopping, counting>>

\* where a coroutine receives the CancelledError of Task.cancel(): where it
\* is suspended; _process_task does not suspend
CancelLands_Anywhere(p) == TRUE

CancelLands(p) == p = "waiting"

\* restart_worker for a worker inside _process_task: old_worker.cancel()
\* marks the task, `await old_worker` fails on the helper loop and
\* restart_worker returns False
RequestCancel(w) ==
    /\ thread[w] = "main"
    /\ LoopFree("helper")
    /\ pc[w] \in {"working", "failing"}
    /\ ~must_cancel[w]
    /\ must_cancel' = [must_cancel EXCEPT ![w] = TRUE]
    /\ interrupted' = [interrupted EXCEPT ![w] = cur[w].task_id]
    /\ UNCHANGED <<core, history, pipeline, checkpoint, runtime,
                   besideCancelling>>

\* the worker task receives the CancelledError: _worker_loop re-raises it
\* and ends; what the coroutine held goes with it
DeliverCancel(w) ==
    /\ must_cancel[w]
    /\ thread[w] = "main"
    /\ CancelLands(pc[w])
    /\ must_cancel' = [must_cancel EXCEPT ![w] = FALSE]
    /\ thread' = [thread EXCEPT ![w] = "done"]
    /\ pc' = [pc EXCEPT ![w] = "waiting"]
    /\ cur' = [cur EXCEPT ![w] = NoTask]
    /\ status' = [status EXCEPT ![w] = "stopped"]
    /\ UNCHANGED <<MAX_RETRIES, tasks, heap, task_counter, initialized, nputs,
                   restarts, history, run, repo_files, git_commits,
                   completed_log, worker_states, checkpoint, shutdown_event,
                   sup, besideCancelling, interrupted>>

NextRestartWorker ==
    \/ \E t \in TaskIds : RuntimePut(t, 0)
    \/ \E w \in Workers : Dequeue(w) /\ UNCHANGED others
    \/ \E w \in Workers : Start(w) /\ UNCHANGED others
    \/ \E w \in Workers : Complete(w) /\ UNCHANGED others
    \/ \E w \in Workers : Fail(w) /\ UNCHANGED others
    \/ \E w \in Workers : HandleFailure(w) /\ UNCHANGED others
    \/ \E w \in Workers : RequestCancel(w)
    \/ \E w \in Workers : DeliverCancel(w)
    \/ \E w \in Workers : RelaunchWorker(w)

SpecRestartWorker == InitPipeline /\ [][NextRestartWorker]_vars

\* ------------------------------------------------------ signed priorities
\* api_add_task passes the request's priority on as it is: any integer
SignedPriorities == {0 - 2, 0 - 1, 0, 1, 2}

NextSigned ==
    \/ \E t \in TaskIds, p \in SignedPriorities : Put(t, p) /\ UNCHANGED others
    \/ \E w \in Workers : Dequeue(w) /\ UNCHANGED others
    \/ \E w \in Workers : Start(w) /\ UNCHANGED others
    \/ \E w \in Workers : Complete(w) /\ UNCHANGED others
    \/ \E w \in Workers : Fail(w) /\ UNCHANGED others
    \/ \E w \in Workers : HandleFailure(w) /\ UNCHANGED others

SpecSigned == Init /\ [][NextSigned]_vars

\* ----------------------------------------------------------- termination
\* The workers with nothing else going on: no pause, no shutdown, no restart
\* of a worker, no exception out of an iteration; clients put tasks with
\* new ids.  The main loop runs every coroutine that is ready, in turn.
TerminationPut(t) ==
    /\ sup = "running"
    /\ ~HasRow(t)
    /\ Put(t, 0)
    /\ HistoryOfPut(t)

TerminationStart(w) ==
    /\ Start(w)
    /\ status' = [status EXCEPT ![w] = "working"]
    /\ UNCHANGED <<history, pipeline, checkpoint, aside, shutdown_event, sup>>

TerminationWorkerStep(w) ==
    \/ EnterLoop(w)
    \/ RuntimeDequeue(w)
    \/ TerminationStart(w)
    \/ Complete(w) /\ HistoryOfComplete(w)
    \/ Fail(w) /\ HistoryOfFail(w)
    \/ HandleFailure(w) /\ HistoryOfHandleFailure(w)

NextTermination ==
    \/ \E t \in TaskIds : TerminationPut(t)
    \/ \E w \in Workers : EnterLoop(w)
    \/ \E w \in Workers : RuntimeDequeue(w)
    \/ \E w \in Workers : TerminationStart(w)
    \/ \E w \in Workers : Complete(w) /\ HistoryOfComplete(w)
    \/ \E w \in Workers : Fail(w) /\ HistoryOfFail(w)
    \/ \E w \in Workers : HandleFailure(w) /\ HistoryOfHandleFailure(w)

FairTermination == \A w \in Workers : WF_vars(TerminationWorkerStep(w))

SpecTermination ==
    InitPipeline /\ [][NextTermination]_vars /\ FairTermination

\* ------------------------------------------------------- the queue's lock
\* api_add_task runs put() on the HTTP helper's loop, in another thread
\* than the workers: the statements of its `async with self._lock` block
\* interleave with the main loop.  get() does not take the lock.
besideLocking ==
    <<snapshot, reviewing, followup, repos, extracting,
      observing, cancelling, stopping, counting>>

\* put() on the helper loop, up to log_task_created
HttpPutBegin(t) ==
    /\ sup = "running"
    /\ nputs < MaxPuts
    /\ ~HasRow(t)
    /\ putting = NoTask
    /\ SetQ(initialize(Q, tasks))
    /\ tasks' = log_task_created(tasks, t, 0)
    /\ putting' = NewTask(t, 0)
    /\ nputs' = nputs + 1
    /\ UNCHANGED <<MAX_RETRIES, pc, cur, restarts, history, pipeline,
                   checkpoint, runtime, besideLocking>>

\* put() on the helper loop, from self._queue.put to the lock's release
HttpPutEnd ==
    /\ putting # NoTask
    /\ SetQ(Push(Q, putting))
    /\ putting' = NoTask
    /\ UNCHANGED <<MAX_RETRIES, tasks, pc, cur, nputs, restarts, history,
                   pipeline, checkpoint, runtime, besideLocking>>

\* _handle_task_failure on the main loop; the put() of its retry waits
\* while the lock is taken
LockedHandleFailure(w) ==
    /\ pc[w] = "failing"
    /\ ShouldRetry(cur[w]) => putting = NoTask
    /\ HandleFailure(w)
    /\ UNCHANGED others

NextLock ==
    \/ \E t \in TaskIds : HttpPutBegin(t)
    \/ HttpPutEnd
    \/ \E w \in Workers : Dequeue(w) /\ UNCHANGED others
    \/ \E w \in Workers : Start(w) /\ UNCHANGED others
    \/ \E w \in Workers : Complete(w) /\ UNCHANGED others
    \/ \E w \in Workers : Fail(w) /\ UNCHANGED others
    \/ \E w \in Workers : LockedHandleFailure(w)

SpecLock == InitPipeline /\ [][NextLock]_vars

\* ----------------------------------------------------- the final snapshot
besideStopping ==
    <<snapshot, reviewing, followup, repos, extracting,
      observing, cancelling, locking, counting>>

\* get_worker_status()['workers']: dict(self.worker_states)
WorkerEntries ==
    {[id |-> w, tasks_completed |-> worker_states[w].tasks_completed,
      tasks_failed |-> worker_states[w].tasks_failed] : w \in registered}

\* _worker_loop after a successful _process_task: tasks_completed += 1
CountComplete(w) ==
    /\ sup = "running"
    /\ Complete(w)
    /\ worker_states' = [worker_states EXCEPT ![w].tasks_completed = @ + 1]
    /\ UNCHANGED <<history, thread, run, repo_files, git_commits,
                   completed_log, checkpoint, runtime, aside>>

\* _worker_loop after a failed _process_task: tasks_failed += 1
CountFailure(w) ==
    /\ sup = "running"
    /\ HandleFailure(w)
    /\ worker_states' = [worker_states EXCEPT ![w].tasks_failed = @ + 1]
    /\ UNCHANGED <<history, thread, run, repo_files, git_commits,
                   completed_log, checkpoint, runtime, aside>>

\* _save_system_state: the snapshot holds what get_worker_status returns
SavedWorkers == [written |-> TRUE, workers |-> WorkerEntries]

\* _state_save_loop: the periodic snapshot
StateSaveLoop ==
    /\ sup = "running"
    /\ MainLoopFree
    /\ final_state # SavedWorkers
    /\ final_state' = SavedWorkers
    /\ UNCHANGED <<core, history, pipeline, checkpoint, runtime,
                   besideStopping, registered, at_shutdown>>

\* _shutdown begins
ShutdownBegin ==
    /\ sup = "running"
    /\ MainLoopFree
    /\ sup' = "shutdown"
    /\ shutdown_event' = TRUE
    /\ at_shutdown' = WorkerEntries
    /\ UNCHANGED <<core, history, pipeline, checkpoint, status,
                   besideStopping, registered, final_state>>

\* stop_workers: self.worker_states.clear()
StopWorkersCleared == {}

\* _shutdown: stop_workers cancels and joins the workers, then clears
\* self.workers and self.worker_states
ShutdownStopWorkers ==
    /\ sup = "shutdown"
    /\ status' = [w \in Workers |-> "stopped"]
    /\ pc' = [w \in Workers |-> "waiting"]
    /\ cur' = [w \in Workers |-> NoTask]
    /\ sup' = "workers_stopped"
    /\ registered' = StopWorkersCleared
    /\ UNCHANGED <<MAX_RETRIES, tasks, heap, task_counter, initialized, nputs,
                   restarts, history, pipeline, checkpoint, shutdown_event,
                   besideStopping, final_state, at_shutdown>>

\* _shutdown: the final _save_system_state
ShutdownSaveState ==
    /\ sup = "workers_stopped"
    /\ sup' = "saved"
    /\ final_state' = SavedWorkers
    /\ UNCHANGED <<core, history, pipeline, checkpoint, status,
                   shutdown_event, besideStopping, registered, at_shutdown>>

NextShutdown ==
    \/ \E t \in TaskIds : RuntimePut(t, 0)
    \/ \E w \in Workers : sup = "running" /\ Dequeue(w) /\ UNCHANGED others
    \/ \E w \in Workers : sup = "running" /\ Start(w) /\ UNCHANGED others
    \/ \E w \in Workers : CountComplete(w)
    \/ \E w \in Workers : sup = "running" /\ Fail(w) /\ UNCHANGED others
    \/ \E w \in Workers : CountFailure(w)
    \/ StateSaveLoop
    \/ ShutdownBegin
    \/ ShutdownStopWorkers
    \/ ShutdownSaveState

SpecShutdown == InitRuntime /\ [][NextShutdown]_vars

\* ------------------------------------------------- the primary reviewer
\* the ids that add_text_task generates for the follow-up tasks
FollowupIds == {"f1", "f2"}

\* the follow-up tasks enqueued for the findings of task t
FollowupsOf(t) == {i \in DOMAIN followups : followups[i].of = t}

\* _primary_review_loop, one task of one cycle: the task is among those
\* completed in the window, is not a major task in its grace period, and
\* _review_completed_task reviews it and may enqueue a follow-up
PrimaryReviewTask(t, syn) ==
    /\ t \in RecentlyCompleted(tasks, completed_at, now)
    /\ ~ShouldRespectMajorTask(t, completed_at, now)
    /\ primary_count[t] < MaxReviews
    /\ primary_count' = [primary_count EXCEPT ![t] = @ + 1]
    /\ LET f == [syntax_issues |-> syn, logic_errors |-> 0, others |-> 0]
       IN /\ review_findings' = f
          /\ IF CreatesFollowup(f, CREATE_FOLLOWUP_TASKS)
             THEN \E n \in FollowupIds :
                    /\ ~HasRow(n)
                    /\ n = "f2" => HasRow("f1")
                    /\ LET r == put(Q, tasks, NewTask(n, FollowupPriority))
                       IN /\ SetQ(r.q)
                          /\ tasks' = r.tbl
                    /\ followups' =
                         Append(followups,
                                [task_id |-> n, of |-> t,
                                 priority |-> FollowupPriority])
             ELSE UNCHANGED <<heap, task_counter, initialized, tasks,
                              followups>>
    /\ tasks_reviewed' = tasks_reviewed + 1
    /\ UNCHANGED <<MAX_RETRIES, pc, cur, nputs, restarts, history, pipeline,
                   checkpoint, runtime, snapshot, reviewing, repos,
                   extracting, observing, cancelling, locking, stopping,
                   CREATE_FOLLOWUP_TASKS>>

\* a worker completes the task it holds, a follow-up task too
PrimaryComplete(w) ==
    IF cur[w].task_id \in TaskIds
    THEN ReviewComplete(w)
    ELSE Complete(w) /\ UNCHANGED others

\* a client adds a task under a new id
PrimaryPut(t, m) == ~HasRow(t) /\ ReviewPut(t, 0, m)

\* the clock is followed until the tasks completed at the start have left
\* the reviewer's window
PrimaryTick == now <= RecentDays /\ Tick

NextPrimary ==
    \/ \E t \in TaskIds, m \in BOOLEAN : PrimaryPut(t, m)
    \/ \E w \in Workers : Dequeue(w) /\ UNCHANGED others
    \/ \E w \in Workers : Start(w) /\ UNCHANGED others
    \/ \E w \in Workers : PrimaryComplete(w)
    \/ PrimaryTick
    \/ \E t \in TaskIds, syn \in {0, FollowupThreshold} :
          PrimaryReviewTask(t, syn)

SpecPrimary == InitCheckpoint /\ [][NextPrimary]_vars

\* ================================================================ claims
HeapCount(h, t) == Cardinality({i \in DOMAIN h : h[i].task.task_id = t})

Held(t) == \E w \in Workers : cur[w].task_id = t

\* C1: every change of a task's status in the store is pending -> running,
\* running -> completed, running -> failed or failed -> pending.
AllowedTransitions ==
    {<<"pending", "running">>, <<"running", "completed">>,
     <<"running", "failed">>, <<"failed", "pending">>}

C1_StatusTransitions ==
    [][\A t \in TaskIds :
          (/\ StatusOf(tasks, t) # "none"
           /\ StatusOf(tasks', t) # StatusOf(tasks, t))
          => <<StatusOf(tasks, t), StatusOf(tasks', t)>> \in AllowedTransitions]_vars

\* C2: every task has retry_count <= max_retries, in its in-memory record
\* and in its store row (the row's two columns compared).
C2_RetryCountWithinMax ==
    /\ \A i \in DOMAIN tasks : tasks[i].retry_count <= tasks[i].max_retries
    /\ \A i \in DOMAIN heap : heap[i].task.retry_count <= heap[i].task.max_retries
    /\ \A w \in Workers :
          cur[w] # NoTask => cur[w].retry_count <= cur[w].max_retries

\* C3: a failed task handed to retry is put back only if its retry_count is
\* below its max_retries; otherwise retry fails and changes neither the heap
\* nor the store.  With max_retries = 0 nothing is ever put back.
RetryStep(w) ==
    pc[w] = "failing" /\ pc'[w] = "waiting" /\ restarts' = restarts

C3_RetryOnlyWithinBudget ==
    [][\A w \in Workers :
          (RetryStep(w) /\ cur[w].retry_count >= cur[w].max_retries)
          => /\ heap' = heap
             /\ task_counter' = task_counter
             /\ tasks' = tasks
             /\ ~retry_task(Q, tasks, cur[w]).ok]_vars

C3_Witness ==
    /\ MAX_RETRIES = 0
    /\ restarts = 0
    /\ \E t \in TaskIds :
          /\ HasRow(t)
          /\ Row(t).status = "failed"
          /\ Row(t).retry_count = 0
          /\ ~Held(t)
          /\ HeapCount(heap, t) = 0

\* C4: a task whose attempts all fail fails max_retries + 1 times (the
\* max_retries it was put with) and never more; once it is given up its row
\* is failed, it has failed exactly that often and it has left the heap;
\* retries never leave two heap entries for it.
Clean(t) == HasRow(t) /\ attempts[t] # Unclean

GivenUp(t) == t \notin live /\ Row(t).status # "completed"

C4_AttemptsUntilExhausted ==
    \A t \in TaskIds :
        Clean(t) =>
            /\ HeapCount(heap, t) <= 1
            /\ attempts[t] <= MAX_RETRIES + 1
            /\ GivenUp(t) => /\ Row(t).status = "failed"
                             /\ attempts[t] = MAX_RETRIES + 1
                             /\ HeapCount(heap, t) = 0

\* C5: of the entries waiting in the heap together, put there by put, retry
\* or the reload, one of strictly higher priority is dequeued first.
DequeueStep(w) == pc[w] = "waiting" /\ pc'[w] = "holding"

C5_HigherPriorityFirst ==
    [][\A w \in Workers :
          DequeueStep(w)
          => \A i \in DOMAIN heap' : heap'[i].task.priority <= cur'[w].priority]_vars

C5_Witness ==
    \E w \in Workers :
        /\ pc[w] = "working"
        /\ \E i \in DOMAIN heap :
              /\ heap[i].task.priority < cur[w].priority
              /\ heap[i].seq = 0

\* C6: sequence numbers grow with every insertion (reload, put, retry) and
\* none is used twice, and entries of equal priority leave in the order
\* they were inserted.
C6_FifoWithinPriority ==
    /\ [](\A i, j \in DOMAIN heap : i < j => heap[i].seq < heap[j].seq)
    /\ [][\A w \in Workers :
             (DequeueStep(w) /\ initialized)
             => \E i \in DOMAIN heap :
                   /\ heap' = RemoveAt(heap, i)
                   /\ heap[i].task = cur'[w]
                   /\ \A j \in 1..(i - 1) :
                         heap[j].task.priority # heap[i].task.priority]_vars

C6_Witness ==
    /\ restarts = 1
    /\ initialized
    /\ \E w \in Workers :
          /\ pc[w] = "working"
          /\ \E i \in DOMAIN heap :
                /\ heap[i].task.priority = cur[w].priority
                /\ heap[i].task.task_id # cur[w].task_id
                /\ heap[i].seq > 0

\* C7: right after initialize() on a fresh queue the heap holds exactly one
\* entry for each row that is pending or running and none for any other row.
LoadStep == ~initialized /\ initialized' /\ nputs' = nputs /\ cur' = cur

C8_ReloadResetsRowsToPending ==
    [][LoadStep
       => /\ \A i \in DOMAIN tasks :
                IsOpen(tasks[i]) => tasks'[i].status = "pending"
          /\ \A i \in DOMAIN heap' : heap'[i].task.status = "pending"]_vars

C10_RestartReloadsLiveTasks ==
    [][(LoadStep /\ restarts >= 1)
       => \A t \in live : HeapCount(heap', t) >= 1]_vars

\* C12: the lifecycle records of a task appear in causal order: a started
\* record is written only for a task that has its created record, and a
\* completed or failed record directly follows the started record of its
\* attempt, with no other lifecycle record of the task in between.  Every
\* log_task_* call writes the row's status and appends its record together,
\* so the status of the row names the task's latest lifecycle record
\* (pending: created, running: started, completed, failed).
LastRecord(t) == StatusOf(tasks, t)

StartStep(w) == pc[w] = "holding" /\ pc'[w] = "working"

EndStep(w) ==
    pc[w] = "working" /\ pc'[w] \in {"waiting", "failing"} /\ restarts' = restarts

C12_LifecycleCausalOrder ==
    [][\A w \in Workers :
          /\ StartStep(w) => LastRecord(cur[w].task_id) # "none"
          /\ EndStep(w) => LastRecord(cur[w].task_id) = "running"]_vars

\* C13: whenever no queue or worker operation is in flight, queue.size() is
\* the number of pending rows minus the number of tasks workers hold.
Quiescent == \A w \in Workers : pc[w] \in {"waiting", "holding"}

size == Len(initialize(Q, tasks).heap)

PendingRows == Cardinality({i \in DOMAIN tasks : tasks[i].status = "pending"})

HeldByWorkers == Cardinality({w \in Workers : cur[w] # NoTask})

C13_SizeIsPendingMinusHeld ==
    Quiescent => size = PendingRows - HeldByWorkers

\* C14: when a task that failed with retry_count r < max_retries and
\* priority p is retried, its new heap entry and its row both show status
\* pending, retry_count r + 1 and priority max(0, p - 1).
RetriedStep(w) == RetryStep(w) /\ cur[w].retry_count < cur[w].max_retries

C14_RetryUpdatesHeapAndRow ==
    [][\A w \in Workers :
          RetriedStep(w)
          => LET t == cur[w].task_id
                 r == cur[w].retry_count
                 p == cur[w].priority
                 e == heap'[Len(heap')].task
                 row == tasks'[CHOOSE i \in Indices(t, tasks') : TRUE]
             IN /\ StatusOf(tasks, t) = "failed"
                /\ e.task_id = t
                /\ e.status = "pending"
                /\ e.retry_count = r + 1
                /\ e.priority = Max(0, p - 1)
                /\ row.status = "pending"
                /\ row.retry_count = r + 1
                /\ row.priority = Max(0, p - 1)]_vars

\* C15: at any time at most one worker holds a given task_id, whatever the
\* puts, retries and reloads were.
C15_OneHolderPerTask ==
    \A w1, w2 \in Workers :
        (w1 # w2 /\ cur[w1] # NoTask) => cur[w1].task_id # cur[w2].task_id

\* C11: a commit record for a task is appended to the store only after a
\* completion of that task has been recorded.
CommitRecorded(t) == git_commits'[t] > git_commits[t]

C11_CommitAfterCompletion ==
    [][\A t \in TaskIds : CommitRecorded(t) => t \in completed_log]_vars

\* C16: no two workers are in the commit step, between the writing of the
\* files and the end of commit_changes, at the same time; every task writes
\* the one repository of git_manager.
InCommitStep(w) == pc[w] = "working" /\ Step(run[w]) = "commit"

C16_OneWorkerInCommitStep ==
    \A w1, w2 \in Workers :
        (InCommitStep(w1) /\ InCommitStep(w2)) => w1 = w2

\* C17: an attempt is marked completed, and its files are written to the
\* repository, only if in that attempt generation succeeded with non-empty
\* output, then the syntax check passed, then the tests passed; once a step
\* has failed the attempt records mark_failed, writes nothing to the
\* repository and records no completion.
GenerationOk(g) == g.success /\ g.code \notin {"", " "}

Passed(r) ==
    /\ Len(r) >= 3
    /\ GenerationOk(r[1])
    /\ r[2]
    /\ r[3].success

SomeStepFailed(r) ==
    \/ Len(r) >= 1 /\ ~GenerationOk(r[1])
    \/ Len(r) >= 2 /\ ~r[2]
    \/ Len(r) >= 3 /\ ~r[3].success

WorkerMoves(w) == pc'[w] # pc[w] \/ run'[w] # run[w]

WriteStep(w) == pc[w] = "working" /\ Len(run[w]) = 3 /\ Len(run'[w]) = 4

CompleteStep(w) == pc[w] = "working" /\ pc'[w] = "waiting"

C17_CompletedOnlyAfterAllSteps ==
    [][\A w \in Workers :
          /\ WriteStep(w) => Passed(run[w])
          /\ CompleteStep(w)
             => /\ Passed(run[w])
                /\ StatusOf(tasks', cur[w].task_id) = "completed"
          /\ (pc[w] = "working" /\ SomeStepFailed(run[w]) /\ WorkerMoves(w))
             => /\ pc'[w] = "failing"
                /\ StatusOf(tasks', cur[w].task_id) = "failed"
                /\ repo_files' = repo_files
                /\ completed_log' = completed_log]_vars

C17_Witness ==
    \E t1, t2 \in TaskIds :
        /\ StatusOf(tasks, t1) = "completed"
        /\ t1 \in repo_files
        /\ t1 \in completed_log
        /\ StatusOf(tasks, t2) = "failed"
        /\ t2 \notin repo_files
        /\ t2 \notin completed_log

\* C18: empty generation output, a failed generation call, a failed syntax
\* check, a failed test run and a test timeout (exit_code 124) each fail the
\* attempt, are never counted as a success, and lead to a retry whenever the
\* task's retry_count is below its max_retries.
FailureKind(r) ==
    IF Len(r) >= 1 /\ ~r[1].success THEN "generation_failed"
    ELSE IF Len(r) >= 1 /\ r[1].code \in {"", " "} THEN "empty_output"
    ELSE IF Len(r) >= 2 /\ ~r[2] THEN "syntax_check"
    ELSE IF Len(r) >= 3 /\ r[3].exit_code = 124 THEN "test_timeout"
    ELSE IF Len(r) >= 3 /\ r[3].exit_code # 0 THEN "test_run"
    ELSE "none"

FailureHandled(w) == pc[w] = "failing" /\ pc'[w] = "waiting"

C18_FailuresFailAndRetry ==
    [][\A w \in Workers :
          LET t == cur[w].task_id
          IN /\ (pc[w] = "working" /\ FailureKind(run[w]) # "none"
                    /\ WorkerMoves(w))
                => /\ pc'[w] = "failing"
                   /\ StatusOf(tasks', t) = "failed"
                   /\ worker_states' = worker_states
             /\ (FailureHandled(w) /\ FailureKind(run[w]) # "none")
                => /\ worker_states'[w] =
                         [worker_states[w] EXCEPT !.tasks_failed = @ + 1]
                   /\ t \notin completed_log'
                   /\ cur[w].retry_count < cur[w].max_retries
                      => /\ HeapCount(heap', t) = HeapCount(heap, t) + 1
                         /\ heap'[Len(heap')].task.task_id = t
                         /\ heap'[Len(heap')].task.retry_count
                               = cur[w].retry_count + 1
                         /\ StatusOf(tasks', t) = "pending"]_vars

\* an attempt ended by a test timeout with retries left, and in the heap a
\* task put back after a failure
C18_Witness ==
    \E w \in Workers :
        /\ pc[w] = "failing"
        /\ FailureKind(run[w]) = "test_timeout"
        /\ run[w][3].exit_code = 124
        /\ cur[w].retry_count < cur[w].max_retries
        /\ \E i \in DOMAIN heap : heap[i].task.retry_count = 1

\* C19: when the commit step fails (the writing, the staging or the commit
\* returns failure) the task is still marked completed, is not retried, the
\* worker counts it as completed and no commit record is appended for the
\* attempt; a commit that succeeds appends exactly one commit record.
CommitStepFailed(r) ==
    \/ Len(r) = 4 /\ r[4] \in {"unavailable", "write_error"}
    \/ Len(r) = 5 /\ ~CommitReturn(r[5]).success

CommitMade(w) ==
    /\ pc[w] = "working"
    /\ Len(run[w]) = 4
    /\ Len(run'[w]) = 5
    /\ CommitReturn(run'[w][5]).commit_hash # "None"

C19_CommitFailureStillCompletes ==
    [][\A w \in Workers :
          LET t == cur[w].task_id
          IN /\ (pc[w] = "working" /\ CommitStepFailed(run[w])
                    /\ WorkerMoves(w))
                => /\ pc'[w] = "waiting"
                   /\ StatusOf(tasks', t) = "completed"
                   /\ HeapCount(heap', t) = HeapCount(heap, t)
                   /\ worker_states'[w] =
                         [worker_states[w] EXCEPT !.tasks_completed = @ + 1]
                   /\ git_commits' = git_commits
             /\ (pc[w] = "working" /\ WorkerMoves(w))
                => git_commits' =
                      IF CommitMade(w)
                      THEN [git_commits EXCEPT ![t] = @ + 1]
                      ELSE git_commits]_vars

\* one task completed and counted with nothing written and no commit record
\* (the repository was not available), another completed with its record
C19_Witness ==
    \E t1, t2 \in TaskIds :
        /\ StatusOf(tasks, t1) = "completed"
        /\ t1 \notin repo_files
        /\ git_commits[t1] = 0
        /\ StatusOf(tasks, t2) = "completed"
        /\ git_commits[t2] = 1
        /\ \E w \in Workers : worker_states[w].tasks_completed >= 1
        /\ HeapCount(heap, t1) = 0

\* C20: in a checkpoint the workers are paused before the report is rendered,
\* last_checkpoint is set only after the report has been rendered, and the
\* checkpoint sequence does not resume the workers until an operator resume
\* signal has arrived, unless the checkpoint fails.
ReportRendered == ~cp_rendered /\ cp_rendered'

CheckpointResumes == cp = "resuming" /\ cp' = "resumed" /\ ~is_paused'

C20_CheckpointOrder ==
    [][/\ ReportRendered => cp_paused /\ (is_paused \/ op_resumed)
       /\ last_checkpoint' # last_checkpoint
          => cp_paused /\ cp_rendered /\ last_checkpoint' = now
       /\ CheckpointResumes => cp_rendered /\ resume_signal]_vars

\* a checkpoint that rendered its report, marked the day and has just resumed
\* the workers on the operator's signal
C20_Witness ==
    /\ cp = "resumed"
    /\ ~is_paused
    /\ cp_rendered
    /\ last_checkpoint # None
    /\ reports # {}
    /\ resume_signal

\* C21: when a step of the checkpoint sequence raises, the workers are
\* resumed and is_paused is false afterwards in the executor and in the agent
\* state; a failed checkpoint never leaves the system paused.
C21_FailedCheckpointResumes ==
    [][/\ (cp = "except" /\ cp' # cp)
          => ~is_paused' /\ cp' = "except_resumed"
       /\ cp = "except_resumed" => (is_paused => op_paused)
       /\ (cp = "except_resumed" /\ cp' # cp)
          => /\ cp' = "idle"
             /\ ~agent_state'.is_paused
             /\ is_paused' => op_paused']_vars

\* a checkpoint that marked its day, failed at the announcement and has
\* returned with both flags cleared, no operator having resumed
C21_Witness ==
    /\ cp = "idle"
    /\ cp_rendered
    /\ last_checkpoint # None
    /\ ~resume_signal
    /\ ~op_resumed
    /\ ~is_paused
    /\ ~agent_state.is_paused

\* C23: after a shutdown signal is delivered, eventually every worker is
\* stopped and the final snapshot is saved, whatever the system is doing at
\* that moment: workers idle, working or paused, or a checkpoint waiting for
\* the operator's resume.
C23_ShutdownCompletes ==
    shutdown_event ~> (/\ \A w \in Workers : status[w] = "stopped"
                       /\ sup = "saved")

\* C25: an unexpected exception raised inside a worker's loop iteration never
\* terminates that worker: the worker records it, sleeps briefly and returns
\* to dequeuing; a worker stops only on shutdown or cancellation.
C25_ExceptionNeverStopsWorker ==
    [][\A w \in Workers :
          /\ (pc[w] = "holding" /\ pc'[w] = "sleeping")
             => status'[w] # "stopped"
          /\ (pc[w] = "sleeping" /\ pc'[w] # "sleeping")
             => \/ pc'[w] = "waiting" /\ status'[w] # "stopped"
                \/ sup = "shutdown"
          /\ (status[w] # "stopped" /\ status'[w] = "stopped")
             => sup = "shutdown"]_vars

\* a worker dropped its task on an exception and is back in the dequeue
C25_Witness ==
    \E t \in TaskIds, w \in Workers :
        /\ StatusOf(tasks, t) = "pending"
        /\ HeapCount(heap, t) = 0
        /\ \A v \in Workers : cur[v] = NoTask
        /\ pc[w] = "waiting"
        /\ status[w] = "waiting"
        /\ sup = "running"

\* C22: with CHECKPOINT_DAYS = 0 the workers are paused after the first tick
\* and is_paused is true; once the operator issues resume, is_paused becomes
\* false and the workers drain the queue again: every task pending at that
\* moment is eventually dequeued and processed.
OperatorResumed ==
    /\ cp = "waiting"
    /\ api = "idle"
    /\ resume_signal
    /\ ~is_paused
    /\ ~agent_state.is_paused

C24_SnapshotRoundTrip ==
    [][(restarts' = restarts + 1 /\ state_json # NoSnapshot)
       => /\ uptime_start' = state_json.uptime_start
          /\ last_checkpoint' = state_json.last_checkpoint
          /\ StateData' = state_json]_vars

\* C26: a completed task whose description has a major-task keyword is not
\* reviewed by any review worker, primary or deep, while fewer than 7 days
\* have passed since its completion.
C26_MajorTaskGrace ==
    [][\A t \in TaskIds :
         (reviews'[t] # reviews[t] /\ t \in major)
         => now - completed_at[t] >= MajorGraceDays]_vars

\* C27: a review enqueues a follow-up task exactly when the syntax issues and
\* logic errors it found number at least 3 and follow-up creation is
\* enabled; the follow-up task has priority 2.
C27_FollowupIffCriticalAndEnabled ==
    [][tasks_reviewed' # tasks_reviewed
       => /\ (followups' # followups)
             <=> (/\ critical_issues(review_findings') >= FollowupThreshold
                  /\ CREATE_FOLLOWUP_TASKS)
          /\ followups' # followups
             => followups'[Len(followups')].priority = FollowupPriority]_vars

\* the call just made connects again, in the same way and to the same path,
\* an alias whose binding was disconnected with its files kept
Reconnects(a) ==
    /\ repo_calls' = repo_calls + 1
    /\ released[a] # NoBinding
    /\ repo_result'.alias = a
    /\ repo_result'.path = released[a].local_path
    /\ \/ /\ released[a].type = "github"
          /\ repo_result'.op = "connect_to_github_repo"
       \/ /\ released[a].type = "local_folder"
          /\ repo_result'.op = "connect_to_local_folder"

\* C28: for remote and for local bindings, connect, then disconnect without
\* file removal, then connect again with the same alias succeeds and leaves
\* exactly one binding for the alias.
C28_ReconnectSucceeds ==
    [][\A a \in Aliases :
         Reconnects(a)
         => /\ repo_result'.success
            /\ connected_repos'[a] # NoBinding]_vars

\* the blocks of the generated text for the filename, joined in their order
RECURSIVE Concatenated(_, _)
Concatenated(blocks, f) ==
    IF blocks = <<>> THEN <<>>
    ELSE (IF Head(blocks).file = f THEN Head(blocks).code ELSE <<>>)
         \o Concatenated(Tail(blocks), f)

BlockCount(blocks, f) ==
    Cardinality({i \in DOMAIN blocks : blocks[i].file = f})

\* C29: when the generated text has several blocks for the same filename,
\* the extractor's entry for the filename is the concatenation of all those
\* blocks in their order of appearance.
C29_SameFileBlocksConcatenated ==
    extraction = "extracted"
    => \A f \in Filenames :
         BlockCount(BlocksOf(generated_text), f) > 1
         => /\ f \in DOMAIN code_blocks
            /\ code_blocks[f] = Concatenated(BlocksOf(generated_text), f)

\* C30: once a task is recorded in the store, a row for its task_id exists
\* in every later state: no operation (put, retry, retention timer) destroys
\* a task record.
C30_RecordsNeverDestroyed ==
    [][\A t \in TaskIds : HasRow(t) => HasRow(t)']_vars

\* C31: once pause has returned, and until resume is called, no worker
\* dequeues a task, the workers that were already waiting on the queue
\* included.
C31_NoDequeueWhilePaused ==
    [][\A w \in Workers : DequeueStep(w) => ~is_paused]_vars

\* C32: in every entry the status API can observe, current_task is set if
\* and only if status is working.
C32_EntryConsistent ==
    \A w \in Workers :
        (observed[w].current_task # "None") <=> (observed[w].status = "working")

\* C33: restart_worker on a worker that is processing a task does not lose
\* the task: no task is left with status running in the store while no
\* worker holds it and the heap has no entry for it, and once the restarted
\* worker has ended the task is completed, failed, or back in the heap.
C33_RestartKeepsTask ==
    /\ \A t \in TaskIds :
          StatusOf(tasks, t) = "running" => (Held(t) \/ HeapCount(heap, t) > 0)
    /\ \A w \in Workers :
          (interrupted[w] # "None" /\ ~must_cancel[w])
          => \/ StatusOf(tasks, interrupted[w]) \in {"completed", "failed"}
             \/ HeapCount(heap, interrupted[w]) > 0
             \/ Held(interrupted[w])

\* a worker was restarted while it processed a task, has ended, and the task
\* is completed
C33_Witness ==
    \E w \in Workers :
        /\ interrupted[w] # "None"
        /\ thread[w] = "done"
        /\ StatusOf(tasks, interrupted[w]) = "completed"

\* the retry budget that a reload takes from the task's row is the one the
\* task has in memory
BudgetAsStored(task) ==
    /\ LoadedTask(Row(task.task_id)).retry_count = task.retry_count
    /\ LoadedTask(Row(task.task_id)).max_retries = task.max_retries

\* C34: a task keeps its retry budget across a restart: for every open task
\* that the process holds in memory when it stops, in the heap or in a
\* worker, the retry_count and max_retries that initialize() reloads from
\* the store equal the in-memory values.
C34_BudgetKeptAcrossRestart ==
    [][restarts' = restarts + 1
       => /\ \A i \in DOMAIN heap : BudgetAsStored(heap[i].task)
          /\ \A w \in Workers :
                cur[w] # NoTask => BudgetAsStored(cur[w])]_vars

\* C40: a retry never raises a task's priority: when a worker hands a failed
\* task of priority p to retry_task and the task is queued again, the
\* priority of the queued task is at most p, for negative p too.
C40_RetryNeverRaisesPriority ==
    [][\A w \in Workers :
          (pc[w] = "failing" /\ pc'[w] = "waiting" /\ ShouldRetry(cur[w]))
          => \A i \in DOMAIN heap' :
                heap'[i].task.task_id = cur[w].task_id
                => heap'[i].task.priority <= cur[w].priority]_vars

\* the task's last attempt is over: completed, or failed after its
\* MAX_RETRIES + 1 attempts with no retry queued
Finished(t) ==
    \/ StatusOf(tasks, t) = "completed"
    \/ /\ StatusOf(tasks, t) = "failed"
       /\ attempts[t] = MAX_RETRIES + 1
       /\ ~Held(t)
       /\ HeapCount(heap, t) = 0

RecordsQueued ==
    \A t \in TaskIds :
        (StatusOf(tasks, t) = "pending" /\ ~Held(t)) => HeapCount(heap, t) > 0

\* C36: the heap changes only inside the critical section of the queue's
\* lock: while a put() holds the lock no other operation changes the heap,
\* and outside a step no put is visible whose record is in the store and
\* whose entry is not in the heap.
C36_HeapChangesUnderLock ==
    [][/\ putting # NoTask => (heap' = heap \/ putting' = NoTask)
       /\ RecordsQueued']_vars

\* C37: the snapshot written on shutdown contains the entry of every worker
\* that was started, with the completed and failed counts the worker had
\* when the shutdown began.
C37_FinalSnapshotHasWorkers ==
    sup = "saved"
    => /\ final_state.written
       /\ final_state.workers = at_shutdown

\* C38: each completed task is reviewed by the primary reviewer at most
\* once and gives rise to at most one follow-up task, however many review
\* cycles run while the task is inside the window.
C38_ReviewedOnce ==
    \A t \in TaskIds :
        /\ primary_count[t] <= 1
        /\ Cardinality(FollowupsOf(t)) <= 1

\* C39: whenever no pause or resume request and no checkpoint is in
\* progress, the is_paused flag of agent_state equals the executor's
\* is_paused, for every interleaving of the requests with the checkpoint.
C39_PauseFlagsAgree ==
    (api = "idle" /\ cp = "idle") => agent_state.is_paused = is_paused
====
